---------------------------- MODULE Spec2Model ----------------------------
(***************************************************************************)
(* Session lifecycle of the meeting recorder: the one-shot controller      *)
(* (meeting-bot.js, class MeetingBot), the WhatsApp watcher daemon         *)
(* (whatsapp-watcher.js) and the pure helpers of the platform adapters     *)
(* (platforms/*.js).                                                       *)
(*                                                                         *)
(* JavaScript runs one coroutine at a time: code between two awaits is one *)
(* atomic action, and an await is a point where a signal handler, a timer  *)
(* callback or another coroutine may run.  Strings are sequences of        *)
(* one-character strings so that includes/replace/regex are computed.      *)
(***************************************************************************)
EXTENDS Integers, Sequences, FiniteSets, TLC

(***************************************************************************)
(* String helpers (String.prototype.includes / indexOf / replace /         *)
(* endsWith on sequences of characters).                                   *)
(***************************************************************************)
IsAt(s, pat, i) ==
    /\ i >= 1
    /\ i + Len(pat) - 1 <= Len(s)
    /\ \A k \in 1..Len(pat) : s[i + k - 1] = pat[k]

Includes(s, pat) == \E i \in 1..(Len(s) + 1) : IsAt(s, pat, i)

IndexOf(s, pat) ==
    IF Includes(s, pat)
    THEN CHOOSE i \in 1..(Len(s) + 1) :
            /\ IsAt(s, pat, i)
            /\ \A j \in 1..(i - 1) : ~IsAt(s, pat, j)
    ELSE 0

ReplaceFirst(s, pat, rep) ==
    LET i == IndexOf(s, pat)
    IN  IF i = 0 THEN s
        ELSE SubSeq(s, 1, i - 1) \o rep \o SubSeq(s, i + Len(pat), Len(s))

EndsWith(s, suf) ==
    /\ Len(suf) <= Len(s)
    /\ SubSeq(s, Len(s) - Len(suf) + 1, Len(s)) = suf

(***************************************************************************)
(* Bounds of the model.                                                    *)
(***************************************************************************)
MaxTicks == 4
MaxSignals == 1
MaxSignalTicks == 2
MaxCallerLen == 3
MaxPatternLen == 3
MaxListLen == 2
MaxUrlSegments == 3
MaxCalls == 2
MaxShortPolls == 1
MaxElements == 2
MaxPolls == 2

(***************************************************************************)
(* Program constants.                                                      *)
(***************************************************************************)
DefaultEmptyTimeoutMinutes == 15
MsPerMinute == 60000
PollSleepMs == 5000
FirstEndCheckMs == 5000
WatcherPollIntervalMs == 2000

Null == -1
NullPath == << >>

\* file names, relative to the session's output directory
AudioWebm == <<"a","u","d","i","o",".","w","e","b","m">>
AudioWav == <<"a","u","d","i","o",".","w","a","v">>
DotWav == <<".","w","a","v">>
DotWebm == <<".","w","e","b","m">>
DotTxt == <<".","t","x","t">>
SessionJson == <<"s","e","s","s","i","o","n",".","j","s","o","n">>
TmpSessionFile == <<"/","t","m","p","/","l","a","s","t","-","m","e","e","t","i","n","g",
                    "-","s","e","s","s","i","o","n",".","j","s","o","n">>

\* meeting URLs given on the command line
MeetUrl == <<"h","t","t","p","s",":","/","/","m","e","e","t",".","g","o","o","g","l","e",
             ".","c","o","m","/","a","b","c">>
ZoomUrl == <<"h","t","t","p","s",":","/","/","z","o","o","m",".","u","s","/","j","/","1">>
OtherUrl == <<"h","t","t","p","s",":","/","/","x",".","i","o","/","m">>
MeetHost == <<"m","e","e","t",".","g","o","o","g","l","e",".","c","o","m">>
ZoomHost == <<"z","o","o","m",".","u","s">>
WebWhatsAppHost == <<"w","e","b",".","w","h","a","t","s","a","p","p",".","c","o","m">>
WhatsAppHost == <<"w","h","a","t","s","a","p","p",".","c","o","m">>

\* files of the watcher: the recording the start script reports, and the
\* record written when no recording path is known
CallDir == <<"/","r","/">>
TmpCallSessionFile == <<"/","t","m","p","/","l","a","s","t","-","w","h","a","t","s","a","p",
                        "p","-","c","a","l","l","-","s","e","s","s","i","o","n",".","j","s",
                        "o","n">>
Unknown == <<"U","n","k","n","o","w","n">>


(***************************************************************************)
(* State.                                                                  *)
(*                                                                         *)
(* One-shot controller (meeting-bot.js):                                   *)
(*   bot   the fields of the MeetingBot object                             *)
(*   pc    where MeetingBot.run (with joinMeeting and monitorMeeting       *)
(*         inlined) is suspended: the name of the awaited call             *)
(*   cl    the running invocations of MeetingBot.cleanup: one for run      *)
(*         (MainProc) and one for each delivered signal, with the locals   *)
(*         of cleanup                                                      *)
(*   env   what the controller acts on: the clock, the files of the        *)
(*         session directory, the browser tab, the process's exit status   *)
(*   cfg   the command line and config.json values the controller reads    *)
(*   hist  history of the run (calls made, records written); the program   *)
(*         never reads it                                                  *)
(*                                                                         *)
(* Watcher daemon (whatsapp-watcher.js):                                   *)
(*   watcher  the fields of the WhatsAppWatcher object                     *)
(*   wpc      where WhatsAppWatcher.run (MainProc, with handleIncomingCall, *)
(*            monitorCall and processCallEnd inlined) and each signal      *)
(*            handler's shutdown are suspended, with processCallEnd's      *)
(*            locals                                                       *)
(*   wenv     the clock and the process's exit status                      *)
(*   wcfg     the values of whatsapp-config.json the watcher reads         *)
(*   whist    history of the run, per detected call; the program never     *)
(*            reads it                                                     *)
(*                                                                         *)
(* Pure helpers of the adapters (platforms/*.js):                          *)
(*   fn    one application of a helper: its arguments and, once applied,   *)
(*         its result                                                      *)
(***************************************************************************)
VARIABLES bot, pc, cl, env, cfg, hist, watcher, wpc, wenv, wcfg, whist, fn

botVars == <<bot, pc, cl, env, cfg, hist>>
watcherVars == <<watcher, wpc, wenv, wcfg, whist>>
fnVars == <<fn>>
vars == <<botVars, watcherVars, fnVars>>

\* what the one-shot controller leaves alone
notBotVars == <<watcherVars, fnVars>>

\* what the watcher leaves alone
notWatcherVars == <<botVars, fnVars>>

\* what an application of a helper leaves alone
notFnVars == <<botVars, watcherVars>>

MainProc == 0
SignalProcs == 1..MaxSignals
Procs == {MainProc} \cup SignalProcs

DiskPaths ==
    {AudioWebm, AudioWebm \o DotTxt, <<"a","u","d","i","o">> \o DotTxt,
     SessionJson, TmpSessionFile}

\* Date.now() advances during a tick's sleep and awaited adapter calls by at
\* least the poll sleep; these are the elapsed times the model draws from
TickDelays == {PollSleepMs, DefaultEmptyTimeoutMinutes * MsPerMinute}

ParticipantCounts == {-1, 0, 2}

Running == env.exited = Null

(***************************************************************************)
(* platforms/index.js: the registry tests, in order.                       *)
(***************************************************************************)
resolvePlatform(u) ==
    IF Includes(u, MeetHost) THEN "google-meet"
    ELSE IF Includes(u, ZoomHost) THEN "zoom"
    ELSE IF Includes(u, WebWhatsAppHost) THEN "whatsapp"
    ELSE IF Includes(u, WhatsAppHost) THEN "whatsapp"
    ELSE "throw"

\* typeof this.adapter.waitForAdmission === "function": only ZoomPlatform
\* defines it
hasWaitForAdmission(a) == a = "zoom"

(***************************************************************************)
(* What an awaited adapter call can resolve to, per adapter: its return    *)
(* values, and "throw" where the adapter's code has a statement outside    *)
(* any try block that can reject.                                          *)
(***************************************************************************)
clickJoinResults(a) == {"true", "false", "throw"}

waitForAdmissionResults(a) == {"admitted", "ended", "timeout", "not_waiting", "throw"}

verifyInMeetingResults(a) ==
    IF a = "google-meet" THEN {"true", "false", "throw"} ELSE {"true", "false"}

checkMeetingEndedResults(a, hasJoinedBefore) ==
    IF a = "google-meet" /\ ~hasJoinedBefore
    THEN {"true", "false", "throw"}
    ELSE {"true", "false"}

\* variant: every adapter counts the participants
getParticipantCountResultsOverridden(a) == ParticipantCounts

getParticipantCountResults(a) ==
    IF a = "google-meet" THEN ParticipantCounts ELSE {-1}

(***************************************************************************)
(* Initial state: `new MeetingBot()` and the module-level config.          *)
(***************************************************************************)
InitBot ==
    [browser |-> FALSE, page |-> FALSE, adapter |-> "none",
     recordingPath |-> NullPath, isInMeeting |-> FALSE,
     hasJoinedMeeting |-> FALSE, leftDueToEmptyTimeout |-> FALSE,
     emptyMeetingSince |-> Null, audioSaveInterval |-> FALSE]

InitCl ==
    [p \in Procs |->
        [pos |-> "idle", endedAt |-> Null, transcript |-> FALSE,
         execPath |-> NullPath, skipTranscription |-> FALSE]]

InitHist ==
    [log |-> << >>, stopRecordingCalls |-> 0, transcribeRuns |-> 0,
     generateMetadataArgs |-> {}, sessionWrites |-> 0,
     record |-> [endedAt |-> Null, audio |-> FALSE, rawTranscript |-> FALSE,
                 transcript |-> FALSE, file |-> NullPath, keys |-> {}],
     ticks |-> 0, observed |-> FALSE, lastCount |-> 0, lastCountAt |-> Null,
     zeroSince |-> Null, zeroRunBroken |-> FALSE, endedBy |-> "none",
     signals |-> 0, signalInLoop |-> FALSE, firstEndedBy |-> "none",
     checkMeetingEndedArgs |-> {}, unlinked |-> FALSE]

InitEnv ==
    [now |-> 0, disk |-> [f \in DiskPaths |-> "absent"], tab |-> "open",
     exited |-> Null]

\* the configurations a run starts with: every combination of the meeting
\* url and the two empty-meeting options without the Google account, and each
\* url with the Google account under the default options
BotConfigs ==
    {c \in [url : {MeetUrl, ZoomUrl, OtherUrl}, emptyTimeoutMinutes : {0, 1},
            skipTranscriptionOnEmptyLeave : {"true", "false"},
            googleAccount : BOOLEAN] :
        c.googleAccount =>
           (c.emptyTimeoutMinutes = 1 /\ c.skipTranscriptionOnEmptyLeave = "true")}

InitMeetingBot ==
    /\ bot = InitBot
    /\ pc = "init"
    /\ cl = InitCl
    /\ env = InitEnv
    /\ cfg \in BotConfigs
    /\ hist = InitHist


(***************************************************************************)
(* Scheduling.  A coroutine whose pending operation fails or completes     *)
(* without leaving the JavaScript turn is not a suspension point: nothing  *)
(* else runs before it continues.                                          *)
(*   - this.page.evaluate with this.page still null throws synchronously   *)
(*   - this.browser.pages() with this.browser still null likewise          *)
(*   - fs.writeFileSync and process.exit(0) follow each other with no      *)
(*     await in between (cleanup, lines 567-578)                           *)
(***************************************************************************)
Urgent(p) ==
    \/ cl[p].pos = "c_evalStop" /\ ~bot.page
    \/ cl[p].pos = "c_pages" /\ ~bot.browser

MayRun(p) == Running /\ \A q \in Procs \ {p} : ~Urgent(q)

MainMayRun == Running /\ \A q \in Procs : ~Urgent(q)

Logged(h, events) == [h EXCEPT !.log = @ \o events]

(***************************************************************************)
(* cleanup() up to its first await: stopRecording() clears the flush       *)
(* interval and awaits page.evaluate.  b and h are the caller's updates of *)
(* bot and hist.                                                           *)
(***************************************************************************)
EnterCleanup(p, b, h) ==
    /\ bot' = [b EXCEPT !.audioSaveInterval = FALSE]
    /\ cl' = [cl EXCEPT ![p].pos = "c_evalStop"]
    /\ hist' = [h EXCEPT !.stopRecordingCalls = @ + 1,
                         !.firstEndedBy =
                             IF @ # "none" THEN @
                             ELSE IF p = MainProc THEN h.endedBy ELSE "signal"]

\* run()'s catch block, and the cleanup() calls of joinMeeting/monitorMeeting
MainCleanup(b, h) ==
    /\ pc' = "cleanup"
    /\ EnterCleanup(MainProc, b, h)

(***************************************************************************)
(* MeetingBot.run, lines 583-597, and init, lines 57-69.                   *)
(***************************************************************************)
InitConnect ==
    /\ MainMayRun /\ pc = "init"
    /\ \E r \in {"ok", "throw"} :
         IF r = "ok"
         THEN /\ bot' = [bot EXCEPT !.browser = TRUE]
              /\ pc' = "init_pages"
              /\ UNCHANGED <<cl, hist>>
         ELSE MainCleanup(bot, [hist EXCEPT !.endedBy = "error"])
    /\ UNCHANGED <<env, cfg>>
    /\ UNCHANGED notBotVars

InitPages ==
    /\ MainMayRun /\ pc = "init_pages"
    /\ \E r \in {"ok", "throw"} :
         IF r = "ok"
         THEN /\ bot' = [bot EXCEPT !.page = TRUE]
              /\ pc' = "setupAudio"
              /\ UNCHANGED <<cl, hist>>
         ELSE MainCleanup(bot, [hist EXCEPT !.endedBy = "error"])
    /\ UNCHANGED <<env, cfg>>
    /\ UNCHANGED notBotVars

\* setupAudio() resolves; run calls startRecording(meetingName), which awaits mkdir
SetupAudio ==
    /\ MainMayRun /\ pc = "setupAudio"
    /\ \E r \in {"ok", "throw"} :
         IF r = "ok"
         THEN /\ pc' = "startRecording"
              /\ hist' = Logged(hist, <<"startRecording">>)
              /\ UNCHANGED <<bot, cl>>
         ELSE MainCleanup(bot, [hist EXCEPT !.endedBy = "error"])
    /\ UNCHANGED <<env, cfg>>
    /\ UNCHANGED notBotVars

\* startRecording, lines 192-205, then joinMeeting, lines 341-361, up to page.goto
StartRecording ==
    /\ MainMayRun /\ pc = "startRecording"
    /\ LET b == [bot EXCEPT !.recordingPath = AudioWebm]
           a == resolvePlatform(cfg.url)
       IN  IF a = "throw"
           THEN MainCleanup(b, [hist EXCEPT !.endedBy = "error"])
           ELSE /\ bot' = [b EXCEPT !.adapter = a]
                /\ pc' = "goto"
                /\ hist' = Logged(hist, <<"normalizeUrl", "goto">>)
                /\ UNCHANGED cl
    /\ UNCHANGED <<env, cfg>>
    /\ UNCHANGED notBotVars

(***************************************************************************)
(* MeetingBot.joinMeeting, lines 361-423.  Each action is the code that    *)
(* runs when the awaited call named by pc settles.                         *)
(***************************************************************************)
Goto ==
    /\ MainMayRun /\ pc = "goto"
    /\ \E r \in {"ok", "throw"} :
         IF r = "ok"
         THEN /\ pc' = "dismissPopups1"
              /\ hist' = Logged(hist, <<"dismissPopups">>)
              /\ UNCHANGED <<bot, cl>>
         ELSE MainCleanup(bot, [hist EXCEPT !.endedBy = "error"])
    /\ UNCHANGED <<env, cfg>>
    /\ UNCHANGED notBotVars

\* variant: the name is entered whatever config.googleAccount says
DismissPopups1AlwaysNamed ==
    /\ MainMayRun /\ pc = "dismissPopups1"
    /\ pc' = "enterName"
    /\ hist' = Logged(hist, <<"enterName">>)
    /\ UNCHANGED <<bot, cl, env, cfg>>
    /\ UNCHANGED notBotVars

DismissPopups1 ==
    /\ MainMayRun /\ pc = "dismissPopups1"
    /\ IF cfg.googleAccount
       THEN /\ pc' = "muteMedia"
            /\ hist' = Logged(hist, <<"muteMedia">>)
       ELSE /\ pc' = "enterName"
            /\ hist' = Logged(hist, <<"enterName">>)
    /\ UNCHANGED <<bot, cl, env, cfg>>
    /\ UNCHANGED notBotVars

EnterName ==
    /\ MainMayRun /\ pc = "enterName"
    /\ pc' = "muteMedia"
    /\ hist' = Logged(hist, <<"muteMedia">>)
    /\ UNCHANGED <<bot, cl, env, cfg>>
    /\ UNCHANGED notBotVars

MuteMedia ==
    /\ MainMayRun /\ pc = "muteMedia"
    /\ pc' = "dismissPopups2"
    /\ hist' = Logged(hist, <<"dismissPopups">>)
    /\ UNCHANGED <<bot, cl, env, cfg>>
    /\ UNCHANGED notBotVars

DismissPopups2 ==
    /\ MainMayRun /\ pc = "dismissPopups2"
    /\ pc' = "clickJoin"
    /\ hist' = Logged(hist, <<"clickJoin">>)
    /\ UNCHANGED <<bot, cl, env, cfg>>
    /\ UNCHANGED notBotVars

ClickJoin ==
    /\ MainMayRun /\ pc = "clickJoin"
    /\ \E r \in clickJoinResults(bot.adapter) :
         IF r = "throw"
         THEN MainCleanup(bot, [hist EXCEPT !.endedBy = "error"])
         ELSE /\ pc' = "dismissPopups3"
              /\ hist' = Logged(hist, <<"dismissPopups">>)
              /\ UNCHANGED <<bot, cl>>
    /\ UNCHANGED <<env, cfg>>
    /\ UNCHANGED notBotVars

DismissPopups3 ==
    /\ MainMayRun /\ pc = "dismissPopups3"
    /\ IF hasWaitForAdmission(bot.adapter)
       THEN /\ pc' = "waitForAdmission"
            /\ hist' = Logged(hist, <<"waitForAdmission">>)
       ELSE /\ pc' = "verifyInMeeting"
            /\ hist' = Logged(hist, <<"verifyInMeeting">>)
    /\ UNCHANGED <<bot, cl, env, cfg>>
    /\ UNCHANGED notBotVars

\* variant: every result of waitForAdmission counts as having joined
AfterAdmissionJoined(b, r) ==
    [b EXCEPT !.hasJoinedMeeting = TRUE, !.isInMeeting = (r = "admitted")]

\* lines 390-407: the flags after waitForAdmission returned r
AfterAdmission(b, r) ==
    IF r = "admitted"
    THEN [b EXCEPT !.hasJoinedMeeting = TRUE, !.isInMeeting = TRUE]
    ELSE IF r \in {"ended", "timeout"}
    THEN [b EXCEPT !.isInMeeting = FALSE, !.hasJoinedMeeting = FALSE]
    ELSE b

\* variant: "admitted" falls through to the generic verification
AdmissionNextVerifies(r) ==
    IF r \in {"ended", "timeout"} THEN "cleanup" ELSE "verifyInMeeting"

\* lines 390-410: the call joinMeeting awaits next after waitForAdmission
\* returned r
AdmissionNext(r) ==
    IF r = "admitted" THEN "routeAudio"
    ELSE IF r \in {"ended", "timeout"} THEN "cleanup"
    ELSE "verifyInMeeting"

\* lines 388-410
WaitForAdmission ==
    /\ MainMayRun /\ pc = "waitForAdmission"
    /\ \E r \in waitForAdmissionResults(bot.adapter) :
         IF r = "throw"
         THEN MainCleanup(bot, [hist EXCEPT !.endedBy = "error"])
         ELSE IF AdmissionNext(r) = "cleanup"
         THEN MainCleanup(AfterAdmission(bot, r),
                          [Logged(hist, <<r>>) EXCEPT !.endedBy = r])
         ELSE /\ bot' = AfterAdmission(bot, r)
              /\ pc' = AdmissionNext(r)
              /\ hist' = Logged(hist, <<r, AdmissionNext(r)>>)
              /\ UNCHANGED cl
    /\ UNCHANGED <<env, cfg>>
    /\ UNCHANGED notBotVars

\* variant: a negative verification does not mark the bot as in the meeting
AfterVerifyStrict(b, inMeeting) ==
    IF inMeeting
    THEN [b EXCEPT !.hasJoinedMeeting = TRUE, !.isInMeeting = TRUE]
    ELSE b

\* lines 413-420: the flags after verifyInMeeting returned inMeeting
AfterVerify(b, inMeeting) ==
    IF inMeeting
    THEN [b EXCEPT !.hasJoinedMeeting = TRUE, !.isInMeeting = TRUE]
    ELSE [b EXCEPT !.isInMeeting = TRUE]

\* lines 412-422
VerifyInMeeting ==
    /\ MainMayRun /\ pc = "verifyInMeeting"
    /\ \E r \in verifyInMeetingResults(bot.adapter) :
         IF r = "throw"
         THEN MainCleanup(bot, [hist EXCEPT !.endedBy = "error"])
         ELSE /\ bot' = AfterVerify(bot, r = "true")
              /\ pc' = "routeAudio"
              /\ hist' = Logged(hist, <<IF r = "true" THEN "verified"
                                        ELSE "unverified", "routeAudio">>)
              /\ UNCHANGED cl
    /\ UNCHANGED <<env, cfg>>
    /\ UNCHANGED notBotVars

\* routeAudio, lines 207-229: the flush interval is started on both exits;
\* joinMeeting returns and monitorMeeting starts its 10 s wait
RouteAudio ==
    /\ MainMayRun /\ pc = "routeAudio"
    /\ bot' = [bot EXCEPT !.audioSaveInterval = TRUE]
    /\ pc' = "monitorWait"
    /\ UNCHANGED <<cl, env, cfg, hist>>
    /\ UNCHANGED notBotVars

(***************************************************************************)
(* MeetingBot.monitorMeeting, lines 427-481.                               *)
(***************************************************************************)
\* config.meeting?.emptyTimeoutMinutes || 15, times 60 * 1000
EmptyTimeoutMs(c) ==
    (IF c.emptyTimeoutMinutes = 0 THEN DefaultEmptyTimeoutMinutes
     ELSE c.emptyTimeoutMinutes) * MsPerMinute

\* !this.emptyMeetingSince
Falsy(t) == t = Null \/ t = 0

\* variant: the threshold itself is not yet enough
EmptyTimeoutExceeded(emptyDuration, emptyTimeoutMs) == emptyDuration > emptyTimeoutMs

\* emptyDuration >= emptyTimeoutMs, line 458
EmptyTimeoutReached(emptyDuration, emptyTimeoutMs) == emptyDuration >= emptyTimeoutMs

\* the branch of lines 458-463 is taken
LeavesEmpty(b, count, t, emptyTimeoutMs) ==
    /\ count = 0
    /\ ~Falsy(b.emptyMeetingSince)
    /\ EmptyTimeoutReached(t - b.emptyMeetingSince, emptyTimeoutMs)

\* variant: a positive count leaves the empty timer running
ObserveParticipantsNoReset(b, count, t, emptyTimeoutMs) ==
    IF count = 0
    THEN IF Falsy(b.emptyMeetingSince)
         THEN [b EXCEPT !.emptyMeetingSince = t]
         ELSE IF EmptyTimeoutReached(t - b.emptyMeetingSince, emptyTimeoutMs)
              THEN [b EXCEPT !.isInMeeting = FALSE, !.leftDueToEmptyTimeout = TRUE]
              ELSE b
    ELSE b

\* variant: an unknown count is taken for an empty meeting
ObserveParticipantsUnknownEmpty(b, count, t, emptyTimeoutMs) ==
    IF count <= 0
    THEN IF Falsy(b.emptyMeetingSince)
         THEN [b EXCEPT !.emptyMeetingSince = t]
         ELSE IF EmptyTimeoutReached(t - b.emptyMeetingSince, emptyTimeoutMs)
              THEN [b EXCEPT !.isInMeeting = FALSE, !.leftDueToEmptyTimeout = TRUE]
              ELSE b
    ELSE IF ~Falsy(b.emptyMeetingSince)
         THEN [b EXCEPT !.emptyMeetingSince = Null]
         ELSE b

\* variant: a tick that sees participants takes the bot for having joined
ObserveParticipantsConfirms(b, count, t, emptyTimeoutMs) ==
    IF count = 0
    THEN IF Falsy(b.emptyMeetingSince)
         THEN [b EXCEPT !.emptyMeetingSince = t]
         ELSE IF EmptyTimeoutReached(t - b.emptyMeetingSince, emptyTimeoutMs)
              THEN [b EXCEPT !.isInMeeting = FALSE, !.leftDueToEmptyTimeout = TRUE]
              ELSE b
    ELSE IF count > 0
         THEN [b EXCEPT !.emptyMeetingSince = Null, !.hasJoinedMeeting = TRUE]
         ELSE b

\* lines 449-476: the bot after a tick that observed `count` at time t
ObserveParticipants(b, count, t, emptyTimeoutMs) ==
    IF count = 0
    THEN IF Falsy(b.emptyMeetingSince)
         THEN [b EXCEPT !.emptyMeetingSince = t]
         ELSE IF EmptyTimeoutReached(t - b.emptyMeetingSince, emptyTimeoutMs)
              THEN [b EXCEPT !.isInMeeting = FALSE, !.leftDueToEmptyTimeout = TRUE]
              ELSE b
    ELSE IF count > 0
         THEN IF ~Falsy(b.emptyMeetingSince)
              THEN [b EXCEPT !.emptyMeetingSince = Null]
              ELSE b
         ELSE b

\* loop iterations explored: MaxTicks in a run that receives no signal,
\* MaxSignalTicks in a run that receives one
TickBudget == IF hist.signals = 0 THEN MaxTicks ELSE MaxSignalTicks

\* the 10 s wait of line 429 is over: first evaluation of while (this.isInMeeting)
MonitorWait ==
    /\ MainMayRun /\ pc = "monitorWait"
    /\ pc' = IF bot.isInMeeting THEN "tick" ELSE "returned"
    /\ UNCHANGED <<bot, cl, env, cfg, hist>>
    /\ UNCHANGED notBotVars

\* lines 435-443: the 5 s sleep, then checkMeetingEnded(this.hasJoinedMeeting)
Tick ==
    /\ MainMayRun /\ pc = "tick"
    /\ hist.ticks < TickBudget
    /\ \E d \in TickDelays,
          r \in checkMeetingEndedResults(bot.adapter, bot.hasJoinedMeeting) :
         /\ env' = [env EXCEPT !.now = @ + d]
         /\ LET h == [hist EXCEPT !.ticks = @ + 1,
                                   !.checkMeetingEndedArgs =
                                       @ \cup {bot.hasJoinedMeeting}]
            IN  CASE r = "true" ->
                       MainCleanup([bot EXCEPT !.isInMeeting = FALSE],
                                   [h EXCEPT !.endedBy = "hasEnded"])
                  [] r = "throw" ->
                       MainCleanup(bot, [h EXCEPT !.endedBy = "error"])
                  [] r = "false" ->
                       /\ pc' = "getParticipantCount"
                       /\ hist' = h
                       /\ UNCHANGED <<bot, cl>>
    /\ UNCHANGED cfg
    /\ UNCHANGED notBotVars

\* lines 446-480: getParticipantCount() resolved with `count`
GetParticipantCount ==
    /\ MainMayRun /\ pc = "getParticipantCount"
    /\ \E count \in getParticipantCountResults(bot.adapter) :
         LET ms == EmptyTimeoutMs(cfg)
             b  == ObserveParticipants(bot, count, env.now, ms)
             h  == [hist EXCEPT !.observed = TRUE, !.lastCount = count,
                                !.lastCountAt = env.now,
                                !.zeroRunBroken =
                                    @ \/ (count > 0 /\ hist.zeroSince # Null),
                                !.zeroSince =
                                    IF count > 0 THEN Null
                                    ELSE IF count = 0 /\ @ = Null THEN env.now
                                    ELSE @]
         IN  IF LeavesEmpty(bot, count, env.now, ms)
             THEN MainCleanup(b, [h EXCEPT !.endedBy = "empty"])
             ELSE /\ bot' = b
                  /\ pc' = IF b.isInMeeting THEN "tick" ELSE "returned"
                  /\ hist' = h
                  /\ UNCHANGED cl
    /\ UNCHANGED <<env, cfg>>
    /\ UNCHANGED notBotVars

\* _flushAudioChunks, lines 231-247, run by the interval of routeAudio
FlushAudioChunks ==
    /\ MainMayRun
    /\ bot.audioSaveInterval
    /\ \E chunks \in BOOLEAN :
         /\ chunks => env.tab = "open"
         /\ env' = IF chunks /\ bot.recordingPath # NullPath
                   THEN [env EXCEPT !.disk[bot.recordingPath] = "audio"]
                   ELSE env
    /\ UNCHANGED <<bot, pc, cl, cfg, hist>>
    /\ UNCHANGED notBotVars

(***************************************************************************)
(* process.on("SIGINT" / "SIGTERM"), lines 618-628.                        *)
(***************************************************************************)
Signal(p) ==
    /\ MainMayRun
    /\ p = hist.signals + 1
    /\ cl[p].pos = "idle"
    /\ hist.ticks < MaxSignalTicks
    /\ EnterCleanup(p, [bot EXCEPT !.isInMeeting = FALSE],
                    [hist EXCEPT !.signals = @ + 1,
                                 !.signalInLoop =
                                     @ \/ pc \in {"tick", "getParticipantCount"}])
    /\ UNCHANGED <<pc, env, cfg>>
    /\ UNCHANGED notBotVars

(***************************************************************************)
(* MeetingBot.cleanup, lines 485-579, with stopRecording (249-301) and     *)
(* transcribe (304-324).                                                   *)
(***************************************************************************)
Exists(d, f) == f \in DOMAIN d /\ d[f] # "absent"

\* leftDueToEmptyTimeout && skipTranscriptionOnEmptyLeave !== false
SkipTranscription(b, c) ==
    b.leftDueToEmptyTimeout /\ c.skipTranscriptionOnEmptyLeave # "false"

StripSuffix(s, suf) == SubSeq(s, 1, Len(s) - Len(suf))

\* transcribe-fast.sh: $(basename "$AUDIO_FILE" .wav) and f"{basename}.txt"
ScriptTxtPath(audio) ==
    (IF EndsWith(audio, DotWav) THEN StripSuffix(audio, DotWav) ELSE audio) \o DotTxt

\* this.recordingPath.replace(/\.(wav|webm)$/, ".txt"), line 316
TranscribeTxtPath(rp) ==
    IF EndsWith(rp, DotWav) THEN StripSuffix(rp, DotWav) \o DotTxt
    ELSE IF EndsWith(rp, DotWebm) THEN StripSuffix(rp, DotWebm) \o DotTxt
    ELSE rp

\* this.recordingPath ? this.recordingPath.replace(".wav", ".txt") : null, line 531
TranscriptPath(rp) ==
    IF rp = NullPath THEN NullPath ELSE ReplaceFirst(rp, DotWav, DotTxt)

\* lines 563-565
SessionFile(rp) ==
    IF rp = NullPath THEN TmpSessionFile ELSE ReplaceFirst(rp, AudioWav, SessionJson)

\* variant: cleanup returns to its caller instead of ending the process
ProcessExitSkipped(e) == e

\* the keys of sessionInfo, lines 537-561
SessionInfoKeys ==
    {"title", "platform", "meetingCode", "startedAt", "endedAt", "duration",
     "language", "participants", "summary", "keyPoints", "actionItems",
     "topics", "audio", "rawTranscript", "transcript"}

\* process.exit(0), line 578
ProcessExit(e) == [e EXCEPT !.exited = 0]

\* lines 536-578: the session record is built and written, the summary is
\* logged and the process exits, with no await in between
WriteSession(p, e) ==
    LET rp == bot.recordingPath
        sf == SessionFile(rp)
    IN  /\ env' = ProcessExit([e EXCEPT !.disk[sf] = "session"])
        /\ hist' = [hist EXCEPT
                      !.sessionWrites = @ + 1,
                      !.record = [endedAt |-> cl[p].endedAt,
                                  audio |-> rp # NullPath,
                                  rawTranscript |-> TranscriptPath(rp) # NullPath,
                                  transcript |-> cl[p].transcript,
                                  file |-> sf,
                                  keys |-> SessionInfoKeys]]
        /\ cl' = [cl EXCEPT ![p].pos = "done"]

\* lines 529-534: generateMetadata is awaited, or cleanup runs on to the end
MetaNext(p, e) ==
    LET tp == TranscriptPath(bot.recordingPath)
    IN  IF tp # NullPath /\ Exists(e.disk, tp)
        THEN /\ cl' = [cl EXCEPT ![p].pos = "c_meta"]
             /\ hist' = [hist EXCEPT !.generateMetadataArgs = @ \cup {tp}]
             /\ env' = e
        ELSE WriteSession(p, e)

\* stopRecording, lines 283-300: the webm file is missing or empty, and the
\* recording path is dropped
CheckedRecordingPath(rp, d) ==
    IF rp # NullPath /\ EndsWith(rp, DotWebm) /\ ~Exists(d, rp)
    THEN NullPath ELSE rp

\* variant: the command's output is returned whether or not the text file is
\* there
TranscribeOutput(ok, rp, d) == ok

\* transcribe, lines 311-323: the text of the transcript is returned when the
\* command succeeded and the text file is where the controller looks for it
TranscribeResult(ok, rp, d) ==
    /\ ok
    /\ rp # NullPath
    /\ Exists(d, TranscribeTxtPath(rp))

\* stopRecording's page.evaluate settled (lines 257-300), then cleanup lines
\* 490-508 up to the exec of transcribe or to browser.pages()
AfterEvalStop(p) ==
    /\ MayRun(p) /\ cl[p].pos = "c_evalStop"
    /\ \E chunks \in BOOLEAN :
         /\ chunks => (bot.page /\ env.tab = "open")
         /\ LET rp0  == bot.recordingPath
                d1   == IF chunks /\ rp0 # NullPath
                        THEN [env.disk EXCEPT ![rp0] = "audio"] ELSE env.disk
                rp1  == CheckedRecordingPath(rp0, d1)
                skip == SkipTranscription(bot, cfg)
                d2   == IF skip /\ rp1 # NullPath /\ Exists(d1, rp1)
                        THEN [d1 EXCEPT ![rp1] = "absent"] ELSE d1
                exec == ~skip /\ rp1 # NullPath
            IN  /\ bot' = [bot EXCEPT !.recordingPath = rp1]
                /\ env' = [env EXCEPT !.disk = d2]
                /\ cl' = [cl EXCEPT ![p] =
                            [@ EXCEPT !.pos = IF exec THEN "c_transcribe" ELSE "c_pages",
                                      !.endedAt = env.now,
                                      !.execPath = IF exec THEN rp1 ELSE NullPath,
                                      !.skipTranscription = skip]]
                /\ hist' = [hist EXCEPT !.transcribeRuns = IF exec THEN @ + 1 ELSE @,
                                         !.unlinked = @ \/ d2 # d1]
    /\ UNCHANGED <<pc, cfg>>
    /\ UNCHANGED notBotVars

\* transcribe's exec settled, lines 312-323
AfterTranscribe(p) ==
    /\ MayRun(p) /\ cl[p].pos = "c_transcribe"
    /\ \E ok \in BOOLEAN :
         /\ ok => (Exists(env.disk, cl[p].execPath) /\ env.disk[cl[p].execPath] = "audio")
         /\ LET d1 == IF ok
                      THEN [env.disk EXCEPT ![ScriptTxtPath(cl[p].execPath)] = "text"]
                      ELSE env.disk
                rp == bot.recordingPath
            IN  /\ env' = [env EXCEPT !.disk = d1]
                /\ cl' = [cl EXCEPT ![p] =
                            [@ EXCEPT !.pos = "c_pages",
                                      !.transcript = TranscribeResult(ok, rp, d1)]]
    /\ UNCHANGED <<bot, pc, cfg, hist>>
    /\ UNCHANGED notBotVars

\* browser.pages() settled, lines 511-520
AfterPages(p) ==
    /\ MayRun(p) /\ cl[p].pos = "c_pages"
    /\ \E r \in {"one", "many", "throw"} :
         /\ ~bot.browser => r = "throw"
         /\ IF r = "throw" \/ ~bot.page
            THEN MetaNext(p, env)
            ELSE /\ cl' = [cl EXCEPT ![p].pos = IF r = "many" THEN "c_close"
                                                ELSE "c_blank"]
                 /\ UNCHANGED <<env, hist>>
    /\ UNCHANGED <<bot, pc, cfg>>
    /\ UNCHANGED notBotVars

\* page.close() or page.goto("about:blank") settled, then lines 522-534
AfterClose(p) ==
    /\ MayRun(p) /\ cl[p].pos \in {"c_close", "c_blank"}
    /\ MetaNext(p, [env EXCEPT !.tab = IF cl[p].pos = "c_close" THEN "closed"
                                       ELSE "blank"])
    /\ UNCHANGED <<bot, pc, cfg>>
    /\ UNCHANGED notBotVars

\* generateMetadata settled, then lines 536-578
AfterMeta(p) ==
    /\ MayRun(p) /\ cl[p].pos = "c_meta"
    /\ WriteSession(p, env)
    /\ UNCHANGED <<bot, pc, cfg>>
    /\ UNCHANGED notBotVars

Cleanup(p) ==
    \/ AfterEvalStop(p)
    \/ AfterTranscribe(p)
    \/ AfterPages(p)
    \/ AfterClose(p)
    \/ AfterMeta(p)

(***************************************************************************)
(* Pure helpers of the platform adapters.                                  *)
(***************************************************************************)
\* the sequences over `chars` of length at most n
Strings(chars, n) == UNION {[1..k -> chars] : k \in 0..n}

\* String.prototype.toLowerCase on the letters the model draws
toLowerCase(s) == [i \in 1..Len(s) |-> IF s[i] = "A" THEN "a" ELSE s[i]]

\* the character class of pattern.replace(/[.+?^${}()|[\]\\]/g, "\\$&")
RegExpSpecials ==
    {".", "+", "?", "^", "$", "{", "}", "(", ")", "|", "[", "]", "\\"}

RECURSIVE EscapeRegExp(_)
EscapeRegExp(p) ==
    IF p = << >> THEN << >>
    ELSE (IF Head(p) \in RegExpSpecials THEN <<"\\", Head(p)>> ELSE <<Head(p)>>)
             \o EscapeRegExp(Tail(p))

\* .replace(/\*/g, ".*")
RECURSIVE StarsToDotStar(_)
StarsToDotStar(p) ==
    IF p = << >> THEN << >>
    ELSE (IF Head(p) = "*" THEN <<".", "*">> ELSE <<Head(p)>>)
             \o StarsToDotStar(Tail(p))

\* the characters "." does not match in a JavaScript RegExp without the s flag
LineTerminators == {"\n", "\r"}

\* new RegExp("^" + src + "$").test(s) for the sources the two replaces above
\* produce: "\c" is the character c, ".*" any run without a line terminator,
\* anything else is itself; src[j..] must match s[i..] up to the end of s
RECURSIVE RegExpMatchFrom(_, _, _, _)
RegExpMatchFrom(src, j, s, i) ==
    IF j > Len(src) THEN i > Len(s)
    ELSE IF src[j] = "\\"
    THEN /\ i <= Len(s)
         /\ s[i] = src[j + 1]
         /\ RegExpMatchFrom(src, j + 2, s, i + 1)
    ELSE IF src[j] = "." /\ j < Len(src) /\ src[j + 1] = "*"
    THEN \E k \in i..(Len(s) + 1) :
            /\ \A m \in i..(k - 1) : s[m] \notin LineTerminators
            /\ RegExpMatchFrom(src, j + 2, s, k)
    ELSE /\ i <= Len(s)
         /\ s[i] = src[j]
         /\ RegExpMatchFrom(src, j + 1, s, i + 1)

RegExpTest(src, s) == RegExpMatchFrom(src, 1, s, 1)

\* variant: no wildcard support, every pattern but "*" is a substring test
matchPatternSubstring(str, pattern) ==
    IF pattern = <<"*">> THEN TRUE ELSE Includes(str, pattern)

\* WhatsAppPlatform._matchPattern, whatsapp.js lines 273-282
matchPattern(str, pattern) ==
    IF pattern = <<"*">> THEN TRUE
    ELSE IF Includes(pattern, <<"*">>)
    THEN RegExpTest(StarsToDotStar(EscapeRegExp(pattern)), str)
    ELSE Includes(str, pattern)

\* WhatsAppPlatform.isCallerAllowed, whatsapp.js lines 248-271
isCallerAllowed(caller, allowList, blockList) ==
    IF caller = << >> THEN Len(allowList) = 0
    ELSE LET callerLower == toLowerCase(caller)
         IN  IF \E i \in 1..Len(blockList) :
                    matchPattern(callerLower, toLowerCase(blockList[i]))
             THEN FALSE
             ELSE IF Len(allowList) = 0 THEN TRUE
             ELSE \E i \in 1..Len(allowList) :
                    matchPattern(callerLower, toLowerCase(allowList[i]))

Digits == {"0", "1", "2", "3", "4", "5", "6", "7", "8", "9"}
HttpsPrefix == <<"h","t","t","p","s",":","/","/">>
JoinPath == <<"/","j","/">>
WebClientPath == <<"/","w","c","/","j","o","i","n","/">>
WhatsAppWebUrl == HttpsPrefix \o WebWhatsAppHost

\* url.match(/(https:\/\/[^/]+)\/j\/(\d+)(.*)/) can match with "https://" at i
\* and the host ending at e
ZoomMatchAt(u, i, e) ==
    /\ IsAt(u, HttpsPrefix, i)
    /\ e >= i + Len(HttpsPrefix)
    /\ \A m \in (i + Len(HttpsPrefix))..e : u[m] # "/"
    /\ IsAt(u, JoinPath, e + 1)
    /\ e + 4 <= Len(u)
    /\ u[e + 4] \in Digits

\* lines 47-53 of zoom.js: the leftmost match, \d+ and .* taking all they can
ZoomRewrite(u) ==
    IF \E i \in 1..Len(u), e \in 1..Len(u) : ZoomMatchAt(u, i, e)
    THEN LET i == CHOOSE x \in 1..Len(u) :
                    /\ \E e \in 1..Len(u) : ZoomMatchAt(u, x, e)
                    /\ \A y \in 1..(x - 1), e \in 1..Len(u) : ~ZoomMatchAt(u, y, e)
             e == CHOOSE x \in 1..Len(u) : ZoomMatchAt(u, i, x)
             idEnd == CHOOSE x \in (e + 4)..Len(u) :
                        /\ \A m \in (e + 4)..x : u[m] \in Digits
                        /\ x < Len(u) => u[x + 1] \notin Digits
             restEnd == CHOOSE x \in idEnd..Len(u) :
                          /\ \A m \in (idEnd + 1)..x : u[m] \notin LineTerminators
                          /\ x < Len(u) => u[x + 1] \in LineTerminators
         IN  SubSeq(u, i, e) \o WebClientPath \o SubSeq(u, e + 4, idEnd)
                 \o SubSeq(u, idEnd + 1, restEnd)
    ELSE u

\* variant: a web-client URL is not passed through but matched again
zoomNormalizeUrlRematch(u) == ZoomRewrite(u)

\* ZoomPlatform.normalizeUrl, zoom.js lines 42-60
zoomNormalizeUrl(u) ==
    IF Includes(u, WebClientPath) THEN u ELSE ZoomRewrite(u)

\* normalizeUrl of the adapter named a: BasePlatform (inherited by
\* GoogleMeetPlatform), ZoomPlatform, WhatsAppPlatform
normalizeUrl(a, u) ==
    IF a = "zoom" THEN zoomNormalizeUrl(u)
    ELSE IF a = "whatsapp" THEN WhatsAppWebUrl
    ELSE u

(***************************************************************************)
(* What the adapters' checks read from the page:                           *)
(*   endPhrase     one of the adapter's end phrases is in the visible text *)
(*                 (document.body.innerText)                               *)
(*   endHidden     an end phrase is in the markup of an element that is    *)
(*                 not displayed (page.content() has it, innerText not)    *)
(*   homeText      Meet: "Return(ing) to home screen" is in the page       *)
(*   joinNow       the join button of the pre-join screen is there         *)
(*   waitingRoom   Zoom: a waiting-room phrase is in the visible text      *)
(*   waitingHidden Zoom: a waiting-room phrase is in markup that is not    *)
(*                 displayed                                               *)
(*   waitingContainer  Zoom: the waiting-room container element is there   *)
(*   leaveControl  Zoom: leave button or meeting container; Meet: the      *)
(*                 "Leave call" button; WhatsApp: the end-call icon        *)
(*   toolbar       Zoom: at least three visible toolbar buttons            *)
(*   meetingText   an in-meeting phrase of the adapter is in the page      *)
(*                 (Zoom, zoom.js 505-509; Meet, google-meet.js 104-108;   *)
(*                 WhatsApp: call timer, call container or in-call text)   *)
(*   mainUI        Meet, Zoom: the tab's URL is the landing, home or       *)
(*                 post-meeting page or about:blank; WhatsApp: the main    *)
(*                 chat interface is in the page                           *)
(*   meetingUrl    Meet: the tab's URL is on meet.google.com and not the   *)
(*                 landing page                                            *)
(*   bodyLong      Zoom: the body's visible text has more than 50 chars    *)
(*   crashed       page.$, page.content and page.evaluate reject           *)
(***************************************************************************)
NoPage ==
    [endPhrase |-> FALSE, endHidden |-> FALSE, homeText |-> FALSE,
     joinNow |-> FALSE, waitingRoom |-> FALSE, waitingHidden |-> FALSE,
     waitingContainer |-> FALSE, leaveControl |-> FALSE, toolbar |-> FALSE,
     meetingText |-> FALSE, mainUI |-> FALSE, meetingUrl |-> FALSE,
     bodyLong |-> FALSE, crashed |-> FALSE]

\* a URL is not the meeting's and the landing page's at once
Pages == {page \in [DOMAIN NoPage -> BOOLEAN] : ~(page.mainUI /\ page.meetingUrl)}

\* a read of the page inside a try block: nothing is found on a crashed page
Finds(page, f) == ~page.crashed /\ page[f]

\* BasePlatform._pageContainsAny, part_001 lines 192-200: page.content()
\* has the markup of elements that are not displayed too
PageContains(page, visible, hidden) == Finds(page, visible) \/ Finds(page, hidden)

\* BasePlatform._visibleTextContainsAny, part_001 lines 209-219
VisibleTextContains(page, visible) == Finds(page, visible)

\* GoogleMeetPlatform.checkMeetingEnded, google-meet.js lines 172-207; the
\* page.$ of line 175 is outside any try, page.url() reads no page
meetCheckMeetingEnded(hasJoinedBefore, page) ==
    IF ~hasJoinedBefore /\ page.crashed THEN "throw"
    ELSE IF ~hasJoinedBefore /\ page.joinNow THEN "false"
    ELSE IF \/ PageContains(page, "endPhrase", "endHidden")
            \/ (hasJoinedBefore /\ Finds(page, "homeText"))
    THEN "true"
    ELSE IF hasJoinedBefore /\ page.mainUI THEN "true"
    ELSE "false"

\* GoogleMeetPlatform.verifyInMeeting, google-meet.js lines 102-124; the
\* page.$ of line 111 is outside any try
meetVerifyInMeeting(page) ==
    IF page.crashed THEN "throw"
    ELSE IF page.meetingText THEN "true"
    ELSE IF page.leaveControl THEN "true"
    ELSE IF page.meetingUrl THEN "true"
    ELSE "false"

\* ZoomPlatform._isInWaitingRoom, zoom.js lines 390-429
zoomIsInWaitingRoom(page) ==
    \/ VisibleTextContains(page, "waitingRoom")
    \/ Finds(page, "waitingContainer")

\* variant: the waiting room is not looked for
zoomIsInMeetingRoomUngated(page) == Finds(page, "leaveControl")

\* ZoomPlatform._isInMeetingRoom, zoom.js lines 439-464
zoomIsInMeetingRoom(page) ==
    /\ ~zoomIsInWaitingRoom(page)
    /\ Finds(page, "leaveControl")

\* ZoomPlatform.verifyInMeeting, zoom.js lines 466-523
zoomVerifyInMeeting(page) ==
    IF zoomIsInWaitingRoom(page) THEN "false"
    ELSE IF zoomIsInMeetingRoom(page) THEN "true"
    ELSE IF Finds(page, "toolbar") THEN "true"
    ELSE IF Finds(page, "meetingText") THEN "true"
    ELSE "false"

\* ZoomPlatform._handleAudioJoin, zoom.js lines 331-375: it returns, with the
\* dialog's button clicked or not found, or rejects when a click on the
\* button it found fails (lines 345 and 358 are outside any try)
handleAudioJoinResults == {"return", "throw"}

\* one poll of waitForAdmission's loop, zoom.js lines 549-578: the visible
\* text is searched for an end phrase, then the waiting room is looked for,
\* then _handleAudioJoin runs and verifyInMeeting decides
zoomAdmissionPoll(page, audioJoin) ==
    IF VisibleTextContains(page, "endPhrase") THEN "ended"
    ELSE IF zoomIsInWaitingRoom(page) THEN "waiting"
    ELSE IF audioJoin = "throw" THEN "throw"
    ELSE IF zoomVerifyInMeeting(page) = "true" THEN "admitted"
    ELSE "waiting"

\* the loop of waitForAdmission over the pages its polls see, n polls made
\* so far; it times out when they are used up
RECURSIVE zoomAdmissionLoop(_, _, _)
zoomAdmissionLoop(polls, audioJoin, n) ==
    IF n = Len(polls) THEN [outcome |-> "timeout", polls |-> n]
    ELSE IF zoomAdmissionPoll(polls[n + 1], audioJoin) # "waiting"
    THEN [outcome |-> zoomAdmissionPoll(polls[n + 1], audioJoin), polls |-> n + 1]
    ELSE zoomAdmissionLoop(polls, audioJoin, n + 1)

\* ZoomPlatform.waitForAdmission, zoom.js lines 535-603, on the page it
\* finds, the pages of its polls and what _handleAudioJoin does: the outcome
\* and the polls made
zoomWaitForAdmission(page, polls, audioJoin) ==
    IF ~zoomIsInWaitingRoom(page) THEN [outcome |-> "not_waiting", polls |-> 0]
    ELSE zoomAdmissionLoop(polls, audioJoin, 0)

\* ZoomPlatform.checkMeetingEnded, zoom.js lines 605-669
zoomCheckMeetingEnded(hasJoinedBefore, page) ==
    IF PageContains(page, "endPhrase", "endHidden") THEN "true"
    ELSE IF hasJoinedBefore /\ PageContains(page, "waitingRoom", "waitingHidden")
    THEN "true"
    ELSE IF hasJoinedBefore /\ page.mainUI THEN "true"
    ELSE IF hasJoinedBefore /\ ~zoomIsInMeetingRoom(page) /\ Finds(page, "bodyLong")
    THEN "true"
    ELSE "false"

\* WhatsAppPlatform._isInCall, whatsapp.js lines 546-614 (verifyInMeeting
\* delegates to it): one signal is enough
whatsappIsInCall(page) ==
    IF Finds(page, "leaveControl") \/ Finds(page, "meetingText") THEN "true"
    ELSE "false"

\* verifyInMeeting of the adapter named a
verifyInMeeting(a, page) ==
    IF a = "google-meet" THEN meetVerifyInMeeting(page)
    ELSE IF a = "zoom" THEN zoomVerifyInMeeting(page)
    ELSE whatsappIsInCall(page)

\* WhatsAppPlatform.checkCallEnded, whatsapp.js lines 630-690
whatsappCheckCallEnded(hasJoinedBefore, page) ==
    IF page.crashed THEN (IF hasJoinedBefore THEN "true" ELSE "false")
    ELSE IF page.endPhrase THEN "true"
    ELSE IF ~page.leaveControl /\ page.mainUI THEN "true"
    ELSE "false"

\* checkMeetingEnded of the adapter named a (WhatsApp's delegates to
\* checkCallEnded, whatsapp.js lines 626-628)
checkMeetingEnded(a, hasJoinedBefore, page) ==
    IF a = "google-meet" THEN meetCheckMeetingEnded(hasJoinedBefore, page)
    ELSE IF a = "zoom" THEN zoomCheckMeetingEnded(hasJoinedBefore, page)
    ELSE whatsappCheckCallEnded(hasJoinedBefore, page)

(***************************************************************************)
(* dismissPopups of the adapters.  The page is the sequence of its         *)
(* clickable elements in document order; an element has                    *)
(*   kind    what the selectors see: a <button>, a button of the cookie    *)
(*           banner, the footer button of the media-permission dialog, an  *)
(*           element with role="button", a link, the notification prompt's *)
(*           dismiss control                                               *)
(*   text    its text content                                              *)
(*   stays   whether it is still in the page after it was clicked (a       *)
(*           control of the page) or goes away with its overlay            *)
(***************************************************************************)
ElementKinds ==
    {"button", "cookieButton", "pepcButton", "roleButton", "link",
     "notificationDismiss"}

GotIt == <<"g","o","t"," ","i","t">>
Accept == <<"A","c","c","e","p","t">>
CloseChat == <<"c","l","o","s","e"," ","c","h","a","t">>
JoinNow == <<"j","o","i","n"," ","n","o","w">>
ContinueWithout == <<"c","o","n","t","i","n","u","e"," ","w","i","t","h","o","u","t"," ","m","i","c","r","o","p","h","o","n","e">>
JoinFromBrowser == <<"j","o","i","n"," ","f","r","o","m"," ","b","r","o","w","s","e","r">>

ElementTexts == {GotIt, Accept, CloseChat, JoinNow, ContinueWithout, JoinFromBrowser}

\* /close|dismiss|got it|not now|accept|agree/i, part_001 line 65
PopupWords ==
    {<<"c","l","o","s","e">>, <<"d","i","s","m","i","s","s">>, <<"g","o","t"," ","i","t">>, <<"n","o","t"," ","n","o","w">>, <<"a","c","c","e","p","t">>, <<"a","g","r","e","e">>}

\* zoom.js lines 156-159
BrowserLinkWords ==
    {<<"j","o","i","n"," ","f","r","o","m"," ","y","o","u","r"," ","b","r","o","w","s","e","r">>, <<"j","o","i","n"," ","f","r","o","m"," ","b","r","o","w","s","e","r">>, <<"j","o","i","n"," ","w","i","t","h","o","u","t">>, <<"s","t","a","r","t"," ","f","r","o","m"," ","y","o","u","r"," ","b","r","o","w","s","e","r">>}

\* zoom.js lines 171-175
BrowserButtonWords ==
    {<<"j","o","i","n"," ","f","r","o","m"," ","y","o","u","r"," ","b","r","o","w","s","e","r">>, <<"j","o","i","n"," ","f","r","o","m"," ","b","r","o","w","s","e","r">>, <<"j","o","i","n"," ","w","i","t","h","o","u","t">>}

\* whatsapp.js line 716
WhatsAppPopupWords == {<<"o","k">>, <<"g","o","t"," ","i","t">>, <<"d","i","s","m","i","s","s">>}

\* a case-insensitive test of text for one of the words
HasWord(text, words) == \E w \in words : Includes(toLowerCase(text), w)

\* page.$$("button") and button selectors find the element
IsButton(e) == e.kind \in {"button", "cookieButton"}

\* element i is clicked: it goes away unless it stays
Clicked(st, i) ==
    [page |-> IF st.page[i].stays THEN st.page
              ELSE SubSeq(st.page, 1, i - 1) \o SubSeq(st.page, i + 1, Len(st.page)),
     clicks |-> st.clicks + 1]

\* the first of the elements found (hits: their positions) is clicked, if
\* one was found
ClickFirst(st, hits) ==
    IF hits = {} THEN st
    ELSE Clicked(st, CHOOSE i \in hits : \A j \in hits : i <= j)

\* BasePlatform.dismissPopups, part_001 lines 58-71: every button found at
\* the start whose text matches is clicked
IsPopupButton(e) == IsButton(e) /\ HasWord(e.text, PopupWords)

baseDismissPopups(st) ==
    [page |-> SelectSeq(st.page, LAMBDA e : ~IsPopupButton(e) \/ e.stays),
     clicks |-> st.clicks
                  + Cardinality({i \in 1..Len(st.page) : IsPopupButton(st.page[i])})]

\* ZoomPlatform.dismissPopups, zoom.js lines 72-182: the generic pass, the
\* cookie banner, the three layers for the media-permission dialog, the
\* "join from your browser" link and button
zoomDismissPopups(st) ==
    LET s1 == baseDismissPopups(st)
        s2 == ClickFirst(s1, {i \in DOMAIN s1.page : s1.page[i].kind = "cookieButton"})
        s3 == ClickFirst(s2, {i \in DOMAIN s2.page : s2.page[i].kind = "pepcButton"})
        s4 == ClickFirst(s3, {i \in DOMAIN s3.page :
                                /\ s3.page[i].kind \in {"roleButton", "pepcButton"}
                                /\ HasWord(s3.page[i].text, {<<"c","o","n","t","i","n","u","e"," ","w","i","t","h","o","u","t">>})})
        s5 == ClickFirst(s4, {i \in DOMAIN s4.page :
                                HasWord(s4.page[i].text, {ContinueWithout})})
        s6 == ClickFirst(s5, {i \in DOMAIN s5.page :
                                /\ s5.page[i].kind = "link"
                                /\ HasWord(s5.page[i].text, BrowserLinkWords)})
    IN  ClickFirst(s6, {i \in DOMAIN s6.page :
                          /\ IsButton(s6.page[i])
                          /\ HasWord(s6.page[i].text, BrowserButtonWords)})

\* WhatsAppPlatform.dismissPopups, whatsapp.js lines 712-732
whatsappDismissPopups(st) ==
    LET s1 == ClickFirst(st, {i \in DOMAIN st.page :
                                /\ IsButton(st.page[i])
                                /\ HasWord(st.page[i].text, WhatsAppPopupWords)})
    IN  ClickFirst(s1, {i \in DOMAIN s1.page : s1.page[i].kind = "notificationDismiss"})

\* dismissPopups of the adapter named a (GoogleMeetPlatform inherits the
\* base's) on a page on which nothing was clicked yet
dismissPopups(a, page) ==
    LET st == [page |-> page, clicks |-> 0]
    IN  IF a = "zoom" THEN zoomDismissPopups(st)
        ELSE IF a = "whatsapp" THEN whatsappDismissPopups(st)
        ELSE baseDismissPopups(st)

(***************************************************************************)
(* The inputs the helpers are applied to.                                  *)
(***************************************************************************)
CallerChars == {"+", "1", "A", "\n"}
PatternChars == {"+", "1", "a", ".", "*"}
UsNumber == <<"+","1","5","5","5","1","2","3","4","5","6","7">>
UkNumber == <<"+","4","4","7","7","0","0","9","0","0","0","0","0">>
Callers == Strings(CallerChars, MaxCallerLen) \cup {UsNumber, UkNumber}
Patterns == Strings(PatternChars, MaxPatternLen)

ListPatterns == {<<"*">>, <<"+","1","*">>, <<"A">>}
PatternLists == Strings(ListPatterns, MaxListLen)

RECURSIVE Concat(_)
Concat(segments) ==
    IF segments = << >> THEN << >> ELSE Head(segments) \o Concat(Tail(segments))

UrlSegments ==
    {ZoomUrl, HttpsPrefix \o ZoomHost, JoinPath, WebClientPath, <<"1","2">>,
     <<"?","p","w","d","=","a">>, <<"/">>, <<"\n">>}
Urls == {Concat(q) : q \in Strings(UrlSegments, MaxUrlSegments)}
Adapters == {"google-meet", "zoom", "whatsapp"}

Elements == [kind : ElementKinds, text : ElementTexts, stays : BOOLEAN]
ElementPages == Strings(Elements, MaxElements)

\* the pages of the waiting room and of what follows it
AdmissionPages ==
    {page \in Pages :
        \A f \in DOMAIN NoPage \ {"endPhrase", "endHidden", "waitingRoom",
                                   "leaveControl", "crashed"} : ~page[f]}

IdleFn ==
    [mode |-> "none", applied |-> FALSE, str |-> << >>, pattern |-> << >>,
     allowList |-> << >>, blockList |-> << >>, adapter |-> "none",
     url |-> << >>, result |-> FALSE, out |-> << >>, again |-> << >>,
     page |-> NoPage, hasJoinedBefore |-> FALSE, ended |-> "none",
     verified |-> "none", inRoom |-> FALSE, polls |-> << >>,
     audioJoin |-> "return",
     admission |-> [outcome |-> "none", polls |-> 0],
     elements |-> << >>, first |-> [page |-> << >>, clicks |-> 0],
     second |-> [page |-> << >>, clicks |-> 0]]

InitFn ==
    \/ \E c \in Callers, p \in Patterns :
         fn = [IdleFn EXCEPT !.mode = "matchPattern", !.str = c, !.pattern = p]
    \/ \E c \in Callers, A \in PatternLists, B \in PatternLists :
         fn = [IdleFn EXCEPT !.mode = "isCallerAllowed", !.str = c,
                             !.allowList = A, !.blockList = B]
    \/ \E a \in Adapters, u \in Urls :
         fn = [IdleFn EXCEPT !.mode = "normalizeUrl", !.adapter = a, !.url = u]
    \/ \E a \in Adapters, j \in BOOLEAN, page \in Pages :
         fn = [IdleFn EXCEPT !.mode = "checkMeetingEnded", !.adapter = a,
                             !.hasJoinedBefore = j, !.page = page]
    \/ \E a \in Adapters, page \in Pages :
         fn = [IdleFn EXCEPT !.mode = "verifyInMeeting", !.adapter = a,
                             !.page = page]
    \/ \E page \in AdmissionPages, polls \in Strings(AdmissionPages, MaxPolls),
          audioJoin \in handleAudioJoinResults :
         fn = [IdleFn EXCEPT !.mode = "waitForAdmission", !.adapter = "zoom",
                             !.page = page, !.polls = polls,
                             !.audioJoin = audioJoin]
    \/ \E a \in Adapters, es \in ElementPages :
         fn = [IdleFn EXCEPT !.mode = "dismissPopups", !.adapter = a,
                             !.elements = es]

\* isCallerAllowed's use of _matchPattern: both arguments lower-cased
ApplyMatchPattern ==
    /\ fn.mode = "matchPattern" /\ ~fn.applied
    /\ fn' = [fn EXCEPT !.applied = TRUE,
                        !.result = matchPattern(toLowerCase(fn.str),
                                                toLowerCase(fn.pattern))]
    /\ UNCHANGED notFnVars

ApplyIsCallerAllowed ==
    /\ fn.mode = "isCallerAllowed" /\ ~fn.applied
    /\ fn' = [fn EXCEPT !.applied = TRUE,
                        !.result = isCallerAllowed(fn.str, fn.allowList,
                                                   fn.blockList)]
    /\ UNCHANGED notFnVars

\* the adapter's normalizeUrl applied to url, and again to what it returned
ApplyNormalizeUrl ==
    /\ fn.mode = "normalizeUrl" /\ ~fn.applied
    /\ fn' = [fn EXCEPT !.applied = TRUE,
                        !.out = normalizeUrl(fn.adapter, fn.url),
                        !.again = normalizeUrl(fn.adapter,
                                               normalizeUrl(fn.adapter, fn.url))]
    /\ UNCHANGED notFnVars


ApplyCheckMeetingEnded ==
    /\ fn.mode = "checkMeetingEnded" /\ ~fn.applied
    /\ fn' = [fn EXCEPT !.applied = TRUE,
                        !.ended = checkMeetingEnded(fn.adapter, fn.hasJoinedBefore,
                                                    fn.page)]
    /\ UNCHANGED notFnVars

\* two calls of the adapter's dismissPopups in a row, the second on the page
\* the first one left
ApplyDismissPopups ==
    /\ fn.mode = "dismissPopups" /\ ~fn.applied
    /\ LET r == dismissPopups(fn.adapter, fn.elements)
       IN  fn' = [fn EXCEPT !.applied = TRUE,
                            !.first = r,
                            !.second = dismissPopups(fn.adapter, r.page)]
    /\ UNCHANGED notFnVars

\* the adapter's verifyInMeeting on a page, with Zoom's _isInMeetingRoom
ApplyVerifyInMeeting ==
    /\ fn.mode = "verifyInMeeting" /\ ~fn.applied
    /\ fn' = [fn EXCEPT !.applied = TRUE,
                        !.verified = verifyInMeeting(fn.adapter, fn.page),
                        !.inRoom = zoomIsInMeetingRoom(fn.page)]
    /\ UNCHANGED notFnVars

ApplyWaitForAdmission ==
    /\ fn.mode = "waitForAdmission" /\ ~fn.applied
    /\ fn' = [fn EXCEPT !.applied = TRUE,
                        !.admission = zoomWaitForAdmission(fn.page, fn.polls,
                                                            fn.audioJoin)]
    /\ UNCHANGED notFnVars
(***************************************************************************)
(* The watcher daemon: whatsapp-watcher.js, class WhatsAppWatcher.         *)
(*                                                                         *)
(* Adapter calls that cannot reject (their bodies are wrapped in try) have *)
(* their return values as outcomes; those with an await outside any try    *)
(* (declineCall, endCall: the fallback button's click) also have the       *)
(* outcome "throw".  Consecutive awaits between which run() reads and      *)
(* writes nothing that shutdown() touches are one action.                  *)
(***************************************************************************)
\* the constant STATE, whatsapp-watcher.js lines 37-47
State ==
    [STARTING |-> "starting", WAITING_AUTH |-> "waiting_auth", IDLE |-> "idle",
     RINGING |-> "ringing", ANSWERING |-> "answering", IN_CALL |-> "in_call",
     CALL_ENDED |-> "call_ended", PROCESSING |-> "processing", ERROR |-> "error"]

\* the constructor, lines 50-68; currentCall is << >> for null and a
\* one-element sequence holding the CallerRecord otherwise
InitWatcherObject ==
    [state |-> State.STARTING, running |-> FALSE, currentCall |-> << >>,
     recordingPath |-> NullPath, callStartedAt |-> Null, callCount |-> 0]

\* run() is about to be called; no signal handler is running
InitWpc ==
    [p \in Procs |->
        [pos |-> IF p = MainProc THEN "run" ELSE "idle",
         caller |-> << >>, transcriptPath |-> NullPath]]

\* the clock is read only for its difference to callStartedAt (lines 394,
\* 423): now counts the milliseconds since the last call was answered;
\* loggedOut: the page shows the QR code, as checkAuthState has seen it
InitWenv == [now |-> 0, exited |-> Null, loggedOut |-> FALSE]

\* history of the call being handled, the last one detected: what the
\* watcher called and wrote for it and the states it took
NewCall(caller, rejected) ==
    [caller |-> caller, rejected |-> rejected, states |-> {},
     declineCalls |-> 0, answerCalls |-> 0, endCallCalls |-> 0,
     startRecordingCalls |-> 0, stopRecordingCalls |-> 0,
     processCallEnds |-> 0, sessionWrites |-> << >>, shortPolls |-> 0]

\* signalState and signalAnswered: the state the watcher was in when the
\* signal was delivered, and whether the call it was handling had been
\* answered and not yet recorded
InitWhist ==
    [calls |-> 0, cur |-> NewCall(<< >>, FALSE), signals |-> 0,
     signalState |-> "none", signalAnswered |-> FALSE, edges |-> {}]

\* what detectIncomingCall reports as the caller (null when the heuristic of
\* whatsapp.js lines 176-215 finds no name)
DetectedCallers == {UsNumber, UkNumber, << >>}

\* how long a timer of the monitoring loop may take to fire
WatcherDelays == {WatcherPollIntervalMs, MsPerMinute}

\* the recording path start-recording.sh reports, or none
RecordingPaths == {CallDir \o AudioWav, NullPath}

\* the recording section of the configuration: everything on, or one of
\* its three switches off
RecordingConfigs ==
    {r \in [enabled : BOOLEAN, transcribe : BOOLEAN, generateMetadata : BOOLEAN] :
        Cardinality({f \in {"enabled", "transcribe", "generateMetadata"} : ~r[f]}) <= 1}

\* whatsapp-config.json as loadConfig reads it, lines 90-94
WatcherConfigs ==
    [allowList : {<< >>, << <<"+","1","*">> >>},
     blockList : {<< >>, << <<"*">> >>},
     autoAnswerDelaySec : {0, 3},
     maxCallDurationMin : {0, 1},
     recording : RecordingConfigs]

InitWatcher ==
    /\ watcher = InitWatcherObject
    /\ wpc = InitWpc
    /\ wenv = InitWenv
    /\ wcfg \in WatcherConfigs
    /\ whist = InitWhist

WatcherAlive == wenv.exited = Null

(***************************************************************************)
(* The four variables an action of the watcher changes, as one value s, so *)
(* that the statements of one atomic stretch of code compose: an operator  *)
(* that takes s runs the code from that point to the next await.           *)
(***************************************************************************)
Here == [watcher |-> watcher, wpc |-> wpc, wenv |-> wenv, whist |-> whist]

Becomes(s) ==
    \E t \in {s} :
        /\ watcher' = t.watcher
        /\ wpc' = t.wpc
        /\ wenv' = t.wenv
        /\ whist' = t.whist
        /\ UNCHANGED wcfg
        /\ UNCHANGED notWatcherVars

\* history: one more invocation of f for the call being handled
Counted(s, f) == [s EXCEPT !.whist.cur[f] = @ + 1]

\* this.state = to
SetState(s, to) ==
    [s EXCEPT !.watcher.state = to, !.whist.cur.states = @ \cup {to},
              !.whist.edges = IF s.watcher.state = to THEN @
                              ELSE @ \cup {<<s.watcher.state, to>>}]

\* process p is next suspended at pos
At(s, p, pos) == [s EXCEPT !.wpc[p].pos = pos]

\* process.exit(code)
Exit(s, p, code) == [s EXCEPT !.wpc[p].pos = "done", !.wenv.exited = code]

\* run() is between the end of one await and the next: nothing else runs
MainUrgent == wpc[MainProc].pos = "loop"

MainAt(pos) ==
    /\ WatcherAlive
    /\ wpc[MainProc].pos = pos

HandlerAt(p, pos) ==
    /\ WatcherAlive
    /\ ~MainUrgent
    /\ wpc[p].pos = pos

ProcAt(p, pos) == IF p = MainProc THEN MainAt(pos) ELSE HandlerAt(p, pos)

(***************************************************************************)
(* processCallEnd, lines 408-492, run by run() (through monitorCall) and   *)
(* by shutdown().                                                          *)
(***************************************************************************)
\* lines 471-473
CallSessionFile(recordingPath) ==
    IF recordingPath # NullPath
    THEN ReplaceFirst(recordingPath, AudioWav, SessionJson)
    ELSE TmpCallSessionFile

\* line 436
CallTranscriptPath(recordingPath) ==
    IF recordingPath # NullPath
    THEN ReplaceFirst(recordingPath, DotWav, DotTxt)
    ELSE NullPath

\* lines 442-468, the fields of sessionInfo the model keeps, and who wrote it
SessionInfo(s, p) ==
    [file |-> CallSessionFile(s.watcher.recordingPath),
     caller |-> s.wpc[p].caller,
     callNumber |-> s.watcher.callCount,
     audio |-> s.watcher.recordingPath # NullPath,
     rawTranscript |-> s.wpc[p].transcriptPath,
     by |-> p]

\* lines 441-491: the record is built and written, the per-call fields are
\* reset; then run() is back at the head of its loop (lines 405, 367, 558)
\* and shutdown() exits (lines 701-702)
SaveSession(s, p) ==
    \E t \in {s} :
        \E t1 \in {[t EXCEPT !.whist.cur.sessionWrites = Append(@, SessionInfo(t, p)),
                             !.watcher.currentCall = << >>,
                             !.watcher.recordingPath = NullPath,
                             !.watcher.callStartedAt = Null]} :
            \E t2 \in {SetState(t1, State.IDLE)} :
                Becomes(IF p = MainProc THEN At(t2, p, "loop") ELSE Exit(t2, p, 0))

\* lines 434-439, after transcribe: exists is fs.existsSync(transcriptPath)
AfterCallTranscribe(s, p, exists) ==
    \E t \in {s} :
        \E transcriptPath \in {CallTranscriptPath(t.watcher.recordingPath)} :
            \E t1 \in {[t EXCEPT !.wpc[p].transcriptPath = transcriptPath]} :
                IF wcfg.recording.generateMetadata /\ transcriptPath # NullPath /\ exists
                THEN Becomes(At(t1, p, "generateMetadata"))
                ELSE SaveSession(t1, p)

\* lines 420-432, after stopRecording
AfterCallStopRecording(s, p, exists) ==
    IF wcfg.recording.enabled /\ wcfg.recording.transcribe
    THEN Becomes(At(s, p, "transcribe"))
    ELSE AfterCallTranscribe(s, p, exists)

\* lines 409-418: processCallEnd up to its first await
ProcessCallEnd(s, p, exists) ==
    \E t \in {s} :
        \E caller \in {IF t.watcher.currentCall # << >>
                       THEN t.watcher.currentCall[1].caller
                       ELSE Unknown} :
            \E t1 \in {[SetState(t, State.PROCESSING) EXCEPT !.wpc[p].caller = caller]} :
                \E t2 \in {Counted(t1, "processCallEnds")} :
                    IF wcfg.recording.enabled
                    THEN Becomes(At(Counted(t2, "stopRecordingCalls"), p, "stopRecording"))
                    ELSE AfterCallStopRecording(t2, p, exists)

\* stopRecording (lines 237-247) has returned
WatcherStopRecording(p) ==
    /\ ProcAt(p, "stopRecording")
    /\ \E exists \in BOOLEAN : AfterCallStopRecording(Here, p, exists)

\* transcribe (lines 251-272) has returned
WatcherTranscribe(p) ==
    /\ ProcAt(p, "transcribe")
    /\ \E exists \in BOOLEAN : AfterCallTranscribe(Here, p, exists)

\* generateMetadata (lines 276-291) has returned
WatcherGenerateMetadata(p) ==
    /\ ProcAt(p, "generateMetadata")
    /\ SaveSession(Here, p)

(***************************************************************************)
(* run(), lines 496-600: start-up.                                         *)
(***************************************************************************)
\* lines 497-509: running is set, the PID file written, connectBrowser called
WatcherRun ==
    /\ MainAt("run")
    /\ Becomes(At([Here EXCEPT !.watcher.running = TRUE], MainProc, "connectBrowser"))

\* lines 508-516: connectBrowser (lines 152-165) has resolved or rejected
WatcherConnectBrowser ==
    /\ MainAt("connectBrowser")
    /\ \E connected \in BOOLEAN :
          Becomes(IF connected
                  THEN At(Here, MainProc, "ensureWhatsAppOpen")
                  ELSE Exit(Here, MainProc, 1))

\* lines 516-523: ensureWhatsAppOpen (lines 167-183) has returned
WatcherEnsureWhatsAppOpen ==
    /\ MainAt("ensureWhatsAppOpen")
    /\ \E opened \in BOOLEAN :
          Becomes(IF opened
                  THEN At(SetState(Here, State.WAITING_AUTH), MainProc, "waitForAuth")
                  ELSE Exit(Here, MainProc, 1))

\* lines 523-531: waitForAuth(180000) has returned
WatcherWaitForAuth ==
    /\ MainAt("waitForAuth")
    /\ \E authed \in BOOLEAN :
          Becomes(IF authed
                  THEN At(Here, MainProc, "setupAudio")
                  ELSE Exit(Here, MainProc, 1))

\* lines 531-539: dismissPopups and setupAudio have returned
WatcherSetupAudio ==
    /\ MainAt("setupAudio")
    /\ Becomes(At(SetState(Here, State.IDLE), MainProc, "loop"))

(***************************************************************************)
(* run(): the polling loop, lines 541-596.                                 *)
(***************************************************************************)
\* lines 541-552: the loop's condition and the idle gate, up to the await
\* they lead to; after the loop, lines 598-599
WatcherLoop ==
    /\ MainAt("loop")
    /\ Becomes(At(Here, MainProc,
                  IF ~watcher.running THEN "stopped"
                  ELSE IF watcher.state # State.IDLE THEN "wait"
                  ELSE "detectIncomingCall"))

\* lines 547-548: wait(1000) is over; continue
WatcherWait ==
    /\ MainAt("wait")
    /\ Becomes(At(Here, MainProc, "loop"))

\* a CallerRecord, lines 300-306
CallerRecord(caller) == [caller |-> caller, answered |-> FALSE, declined |-> FALSE]

\* lines 335-337: this.state = ANSWERING and answerCall is called
Answer(s) ==
    Becomes(At(Counted(SetState(s, State.ANSWERING), "answerCalls"), MainProc, "answerCall"))

\* lines 555-556 and 295-337: the state is RINGING and handleIncomingCall
\* runs up to its first await
HandleIncomingCall(s, callInfo) ==
    \E caller \in {IF callInfo.caller # << >> THEN callInfo.caller ELSE Unknown} :
        \E allowed \in {isCallerAllowed(caller, wcfg.allowList, wcfg.blockList)} :
            \E t \in {[s EXCEPT !.whist.calls = @ + 1,
                                !.whist.cur = NewCall(caller, ~allowed),
                                !.watcher.currentCall = <<CallerRecord(caller)>>]} :
                \E t1 \in {SetState(t, State.RINGING)} :
                    IF ~allowed
                    THEN Becomes(At(Counted(t1, "declineCalls"), MainProc, "declineCall"))
                    ELSE IF wcfg.autoAnswerDelaySec > 0
                    THEN Becomes(At(t1, MainProc, "answerDelay"))
                    ELSE Answer(t1)

\* lines 552-563: detectIncomingCall (whatsapp.js lines 132-228, which
\* catches what it throws) has returned
WatcherDetectIncomingCall ==
    /\ MainAt("detectIncomingCall")
    /\ \E detected \in BOOLEAN, caller \in DetectedCallers :
          /\ detected => whist.calls < MaxCalls
          /\ ~detected => caller = << >>
          /\ IF detected
             THEN HandleIncomingCall(Here, [detected |-> TRUE, caller |-> caller])
             ELSE Becomes(At(Here, MainProc, "checkAuthState"))

\* the catch of the loop, lines 582-584
PollLoopError(s) == Becomes(At(s, MainProc, "recover"))

\* variant: the dropped call stays the current call
AbortCallKept(s) ==
    Becomes(At(SetState(s, State.IDLE), MainProc, "loop"))

\* lines 313-315, 329-331, 340-342: the call is dropped; then lines 558, 541
AbortCall(s) ==
    Becomes(At(SetState([s EXCEPT !.watcher.currentCall = << >>], State.IDLE),
               MainProc, "loop"))

\* lines 311-315: declineCall (whatsapp.js lines 396-431) has returned, or
\* rejected at its line 425
WatcherDeclineCall ==
    /\ MainAt("declineCall")
    /\ \E outcome \in {"true", "false", "throw"} :
          IF outcome = "throw" THEN PollLoopError(Here) ELSE AbortCall(Here)

\* lines 323-337: the delay is over and detectIncomingCall has returned
WatcherAnswerDelay ==
    /\ MainAt("answerDelay")
    /\ \E stillRinging \in BOOLEAN :
          IF ~stillRinging THEN AbortCall(Here) ELSE Answer(Here)

\* lines 337-354: answerCall (whatsapp.js lines 290-393) has returned
WatcherAnswerCall ==
    /\ MainAt("answerCall")
    /\ \E answered \in BOOLEAN :
          IF ~answered
          THEN AbortCall(Here)
          ELSE Becomes(At([Here EXCEPT !.watcher.currentCall[1].answered = TRUE,
                                       !.wenv.now = 0,
                                       !.watcher.callStartedAt = 0,
                                       !.watcher.callCount = @ + 1],
                          MainProc, "muteMedia"))

\* lines 353-372: wait(2000) and muteMedia have returned
WatcherMuteMedia ==
    /\ MainAt("muteMedia")
    /\ Becomes(At(SetState(Here, State.IN_CALL), MainProc,
                  IF wcfg.recording.enabled THEN "callSetupAudio" ELSE "monitorCall"))

\* lines 361-362: setupAudio has returned; startRecording is called
WatcherCallSetupAudio ==
    /\ MainAt("callSetupAudio")
    /\ Becomes(At(Counted(Here, "startRecordingCalls"), MainProc, "startRecording"))

\* lines 362-363: startRecording (lines 195-210) has returned
WatcherStartRecording ==
    /\ MainAt("startRecording")
    /\ \E path \in RecordingPaths :
          Becomes(At(IF path # NullPath
                     THEN [Here EXCEPT !.watcher.recordingPath = path]
                     ELSE Here,
                     MainProc, "routeAudio"))

\* lines 363-372: routeAudio (lines 212-235) has returned
WatcherRouteAudio ==
    /\ MainAt("routeAudio")
    /\ Becomes(At(Here, MainProc, "monitorCall"))

(***************************************************************************)
(* monitorCall, lines 370-406.                                             *)
(***************************************************************************)
\* line 377, the loop's condition, and line 405 after the loop
MonitorLoop(s, exists) ==
    \E t \in {s} :
        IF t.watcher.state = State.IN_CALL /\ t.watcher.running
        THEN Becomes(At(t, MainProc, "monitorPoll"))
        ELSE ProcessCallEnd(t, MainProc, exists)

\* lines 372-377: the 5 s before the first end-check are over
WatcherMonitorCall ==
    /\ MainAt("monitorCall")
    /\ \E exists \in BOOLEAN :
          MonitorLoop([Here EXCEPT !.wenv.now = @ + FirstEndCheckMs], exists)

\* line 374
MaxDurationMs == wcfg.maxCallDurationMin * 60 * 1000

\* lines 378-401: one pass of the loop.  The poll timer has fired after d ms
\* and verifyInMeeting and checkCallEnded (both catch what they throw) have
\* returned; hasConfirmedInCall only feeds checkCallEnded, whose answer is
\* drawn.  The timer fires on time at most MaxShortPolls times per call.
WatcherMonitorPoll ==
    /\ MainAt("monitorPoll")
    /\ \E d \in WatcherDelays, ended \in BOOLEAN, exists \in BOOLEAN :
          /\ d = WatcherPollIntervalMs => whist.cur.shortPolls < MaxShortPolls
          /\ \E t \in {[Here EXCEPT
                           !.wenv.now = @ + d,
                           !.whist.cur.shortPolls =
                               IF d = WatcherPollIntervalMs THEN @ + 1 ELSE @]} :
                IF ended
                THEN ProcessCallEnd(SetState(t, State.CALL_ENDED), MainProc, exists)
                ELSE IF /\ watcher.callStartedAt # Null
                        /\ t.wenv.now - watcher.callStartedAt > MaxDurationMs
                THEN Becomes(At(Counted(t, "endCallCalls"), MainProc, "endCall"))
                ELSE MonitorLoop(t, exists)

\* lines 397-405: endCall (whatsapp.js lines 437-493) has returned, or
\* rejected at its line 467
WatcherEndCall ==
    /\ MainAt("endCall")
    /\ \E outcome \in {"true", "false", "throw"}, exists \in BOOLEAN :
          IF outcome = "throw"
          THEN PollLoopError(Here)
          ELSE ProcessCallEnd(SetState(Here, State.CALL_ENDED), MainProc, exists)

(***************************************************************************)
(* run(): the liveness check of the session and the recovery.              *)
(***************************************************************************)
\* lines 562-580: checkAuthState (whatsapp.js lines 47-92) has returned; when
\* the session is alive, the poll interval is waited for
WatcherCheckAuthState ==
    /\ MainAt("checkAuthState")
    /\ \E authState \in {"qr_code", "loading", "logged_in", "unknown"} :
          /\ wenv.loggedOut => authState = "qr_code"
          /\ Becomes(IF authState = "qr_code"
                     THEN At(SetState([Here EXCEPT !.wenv.loggedOut = TRUE], State.ERROR),
                             MainProc, "waitForAuthAgain")
                     ELSE At(Here, MainProc, "loop"))

\* lines 568-574: the reconnect interval is over and waitForAuth(60000) has
\* returned: true when the QR code was scanned before or during its wait
\* (whatsapp.js lines 100-117)
WatcherWaitForAuthAgain ==
    /\ MainAt("waitForAuthAgain")
    /\ \E reauthed \in BOOLEAN :
          /\ ~wenv.loggedOut => reauthed
          /\ Becomes(At(IF reauthed
                        THEN SetState([Here EXCEPT !.wenv.loggedOut = FALSE], State.IDLE)
                        ELSE Here,
                        MainProc, "loop"))

\* the user links the device again: the page leaves the QR code for the
\* chat list (what checkAuthState reads, whatsapp.js lines 47-92)
QrCodeScanned ==
    /\ WatcherAlive
    /\ ~MainUrgent
    /\ wenv.loggedOut
    /\ Becomes([Here EXCEPT !.wenv.loggedOut = FALSE])

\* lines 584-594: after 5 s connectBrowser has resolved, ensureWhatsAppOpen
\* has returned and the state is reset; or connectBrowser has rejected and
\* the reconnect interval is waited for
WatcherRecover ==
    /\ MainAt("recover")
    /\ \E connected \in BOOLEAN :
          Becomes(At(IF connected THEN SetState(Here, State.IDLE) ELSE Here,
                     MainProc, "loop"))

(***************************************************************************)
(* shutdown(), lines 690-703, called by the SIGINT and SIGTERM handlers    *)
(* (lines 711-719).                                                        *)
(***************************************************************************)
\* a call has been answered and its session record is not yet written
AnsweredUnsaved ==
    /\ watcher.currentCall # << >>
    /\ watcher.currentCall[1].answered
    /\ whist.cur.sessionWrites = << >>

\* lines 691-698, or to the exit at line 702 when no call is live
WatcherShutdown(p) ==
    /\ HandlerAt(p, "idle")
    /\ p = whist.signals + 1
    /\ wpc[MainProc].pos # "run"
    /\ \E t \in {[Here EXCEPT !.watcher.running = FALSE,
                              !.whist.signals = @ + 1,
                              !.whist.signalState = watcher.state,
                              !.whist.signalAnswered = AnsweredUnsaved]} :
          Becomes(IF watcher.state = State.IN_CALL /\ watcher.currentCall # << >>
                  THEN At(Counted(t, "endCallCalls"), p, "shutdownEndCall")
                  ELSE Exit(t, p, 0))

\* lines 698-699: endCall has returned; or it has rejected, and with it the
\* handler's promise, which ends the process or not with the Node version
WatcherShutdownEndCall(p) ==
    /\ HandlerAt(p, "shutdownEndCall")
    /\ \E outcome \in {"true", "false", "throw"}, crash \in BOOLEAN, exists \in BOOLEAN :
          IF outcome = "throw"
          THEN Becomes(IF crash THEN Exit(Here, p, 1) ELSE At(Here, p, "rejected"))
          ELSE ProcessCallEnd(Here, p, exists)

(***************************************************************************)
(* Specifications.                                                         *)
(***************************************************************************)
\* the one-shot controller, constructed and not yet run
IdleMeetingBot ==
    /\ bot = InitBot
    /\ pc = "init"
    /\ cl = InitCl
    /\ env = InitEnv
    /\ cfg = [url |-> MeetUrl, emptyTimeoutMinutes |-> DefaultEmptyTimeoutMinutes,
              skipTranscriptionOnEmptyLeave |-> "true", googleAccount |-> FALSE]
    /\ hist = InitHist

\* the watcher, constructed and not yet run
IdleWatcher ==
    /\ watcher = InitWatcherObject
    /\ wpc = InitWpc
    /\ wenv = InitWenv
    /\ wcfg = [allowList |-> << <<"*">> >>, blockList |-> << >>,
               autoAnswerDelaySec |-> 3, maxCallDurationMin |-> 120,
               recording |-> [enabled |-> TRUE, transcribe |-> TRUE,
                              generateMetadata |-> TRUE]]
    /\ whist = InitWhist

\* node meeting-bot.js <url> [name]
Init ==
    /\ InitMeetingBot
    /\ IdleWatcher
    /\ fn = IdleFn

Next ==
    \/ InitConnect \/ InitPages \/ SetupAudio \/ StartRecording
    \/ Goto \/ DismissPopups1 \/ EnterName \/ MuteMedia \/ DismissPopups2
    \/ ClickJoin \/ DismissPopups3 \/ WaitForAdmission \/ VerifyInMeeting
    \/ RouteAudio \/ MonitorWait \/ Tick \/ GetParticipantCount
    \/ FlushAudioChunks
    \/ \E p \in SignalProcs : Signal(p)
    \/ \E p \in Procs : Cleanup(p)

Spec == Init /\ [][Next]_vars

\* Every awaited call of a running cleanup() settles (page.evaluate, the
\* transcription and metadata child processes, browser.pages, page.close),
\* and the event loop then resumes one of the running cleanups; whether
\* run()'s own awaits settle and whether a signal is delivered is left open.
SpecCleanup ==
    /\ Init
    /\ [][Next]_vars
    /\ WF_vars(\E p \in Procs : Cleanup(p))

\* one application of a helper of the adapters to drawn arguments
InitHelpers ==
    /\ IdleMeetingBot
    /\ IdleWatcher
    /\ InitFn

NextHelpers ==
    \/ ApplyMatchPattern
    \/ ApplyIsCallerAllowed
    \/ ApplyNormalizeUrl
    \/ ApplyCheckMeetingEnded
    \/ ApplyDismissPopups
    \/ ApplyVerifyInMeeting
    \/ ApplyWaitForAdmission

SpecHelpers == InitHelpers /\ [][NextHelpers]_vars


\* node whatsapp-watcher.js
InitDaemon ==
    /\ IdleMeetingBot
    /\ InitWatcher
    /\ fn = IdleFn

\* the steps of run()
WatcherMain ==
    \/ WatcherRun \/ WatcherConnectBrowser \/ WatcherEnsureWhatsAppOpen
    \/ WatcherWaitForAuth \/ WatcherSetupAudio
    \/ WatcherLoop \/ WatcherWait \/ WatcherDetectIncomingCall
    \/ WatcherDeclineCall \/ WatcherAnswerDelay \/ WatcherAnswerCall
    \/ WatcherMuteMedia \/ WatcherCallSetupAudio \/ WatcherStartRecording
    \/ WatcherRouteAudio \/ WatcherMonitorCall \/ WatcherMonitorPoll
    \/ WatcherEndCall \/ WatcherCheckAuthState \/ WatcherWaitForAuthAgain
    \/ WatcherRecover
    \/ WatcherStopRecording(MainProc) \/ WatcherTranscribe(MainProc)
    \/ WatcherGenerateMetadata(MainProc)

\* the steps of a signal handler once its signal is delivered
WatcherHandler(p) ==
    \/ WatcherShutdownEndCall(p)
    \/ WatcherStopRecording(p) \/ WatcherTranscribe(p)
    \/ WatcherGenerateMetadata(p)

NextWatcher ==
    \/ WatcherMain
    \/ QrCodeScanned
    \/ \E p \in SignalProcs : WatcherShutdown(p)
    \/ \E p \in SignalProcs : WatcherHandler(p)

\* Every awaited timer, adapter call and child process of the watcher
\* settles, and the event loop then resumes the coroutine waiting for it;
\* whether a signal is ever delivered, or the QR code ever scanned again, is
\* left open.
SpecWatcher ==
    /\ InitDaemon
    /\ [][NextWatcher]_vars
    /\ WF_vars(WatcherMain)
    /\ \A p \in SignalProcs : WF_vars(WatcherHandler(p))
(***************************************************************************)
(* Properties of the one-shot controller.                                  *)
(***************************************************************************)
Count(log, e) == Cardinality({i \in DOMAIN log : log[i] = e})

\* the position of the first e in log, 0 when there is none
FirstIndex(log, e) ==
    IF \E i \in DOMAIN log : log[i] = e
    THEN CHOOSE i \in DOMAIN log :
             log[i] = e /\ \A j \in DOMAIN log : log[j] = e => i <= j
    ELSE 0

\* C1: when SIGINT or SIGTERM is delivered while monitorMeeting's poll loop
\* is running, then however the handler's cleanup interleaves with the loop's
\* pending tick and with the cleanup the loop itself may start, at most one
\* session record is ever written, and once the process has exited exactly
\* one has been written, its endedAt is non-null, and stopRecording was
\* called before the exit.
C1_SignalDuringMonitoring ==
    hist.signalInLoop =>
        /\ hist.sessionWrites <= 1
        /\ ~Running =>
              /\ hist.sessionWrites = 1
              /\ hist.record.endedAt # Null
              /\ hist.stopRecordingCalls >= 1

\* a signal arrived in the loop, the loop then started a cleanup of its own,
\* both ran side by side and the process has exited
C1_Witness ==
    /\ hist.signalInLoop
    /\ ~Running
    /\ cl[MainProc].pos \notin {"idle", "done"}
    /\ \E p \in SignalProcs : cl[p].pos = "done"

AudioFiles == {f \in DiskPaths : env.disk[f] = "audio"}

\* C3: in a run that receives no termination signal, when the participant
\* count has been 0 since hist.zeroSince (no positive count in between) and a
\* tick observes 0 with an elapsed empty time >= the configured threshold,
\* that very tick sets leftDueToEmptyTimeout and starts cleanup; and when
\* skipTranscriptionOnEmptyLeave is not false, from the moment cleanup has
\* stopped the recording until it completes, no file holds recorded audio and
\* transcription has not been run.
C3_EmptiedOut ==
    /\ ( /\ hist.observed
         /\ hist.lastCount = 0
         /\ hist.zeroSince # Null
         /\ hist.lastCountAt - hist.zeroSince >= EmptyTimeoutMs(cfg) )
       => ( /\ bot.leftDueToEmptyTimeout
            /\ pc = "cleanup"
            /\ hist.endedBy = "empty" )
    /\ ( /\ hist.signals = 0
         /\ bot.leftDueToEmptyTimeout
         /\ cfg.skipTranscriptionOnEmptyLeave # "false"
         /\ cl[MainProc].pos \notin {"idle", "c_evalStop"} )
       => ( /\ AudioFiles = {}
            /\ hist.transcribeRuns = 0
            /\ ~hist.record.transcript )

\* the meeting emptied out, the policy is on, a recording existed when it was
\* stopped, and cleanup has completed
C3_Witness ==
    /\ hist.signals = 0
    /\ bot.leftDueToEmptyTimeout
    /\ cfg.skipTranscriptionOnEmptyLeave = "true"
    /\ bot.recordingPath # NullPath
    /\ cl[MainProc].pos = "done"
    /\ ~Running

\* C4: whenever a tick has observed a positive participant count, the empty
\* timer (emptyMeetingSince) is null before the next tick's checks; and the
\* session ends as emptied-out only on a zero count whose run of zero counts
\* since the last positive count has lasted the full threshold.
C4_PositiveCountResets ==
    /\ (pc = "tick" /\ hist.observed /\ hist.lastCount > 0)
       => bot.emptyMeetingSince = Null
    /\ bot.leftDueToEmptyTimeout
       => ( /\ hist.lastCount = 0
            /\ hist.zeroSince # Null
            /\ hist.lastCountAt - hist.zeroSince >= EmptyTimeoutMs(cfg) )

\* a positive count was observed while the timer was running, and the meeting
\* was left as emptied-out after a later run of zero counts
C4_Witness ==
    /\ hist.zeroRunBroken
    /\ bot.leftDueToEmptyTimeout

VerifyReturns ==
    /\ pc = "verifyInMeeting"
    /\ pc' # pc
    /\ hist'.endedBy = hist.endedBy

\* C9: when no waiting room applies (the adapter has no waitForAdmission, or
\* it returned "not_waiting"), verifyInMeeting is called exactly once and,
\* whatever it returns, joinMeeting goes on to audio routing with
\* isInMeeting = true; hasJoinedMeeting is true iff verifyInMeeting returned
\* true; and startRecording has been invoked exactly once.
C9_GenericConfirmation ==
    [][VerifyReturns =>
          /\ pc' = "routeAudio"
          /\ bot'.isInMeeting
          /\ bot'.hasJoinedMeeting <=> (Count(hist'.log, "verified") = 1)
          /\ Count(hist'.log, "verifyInMeeting") = 1
          /\ Count(hist'.log, "routeAudio") = 1
          /\ Count(hist'.log, "startRecording") = 1]_vars

\* a negative verification: routing audio, in the meeting, never confirmed
C9_Witness ==
    /\ pc = "routeAudio"
    /\ Count(hist.log, "unverified") = 1
    /\ bot.isInMeeting
    /\ ~bot.hasJoinedMeeting


\* where run() is suspended in an adapter call of the join or of the
\* monitoring loop
AdapterCallPcs ==
    {"dismissPopups1", "enterName", "muteMedia", "dismissPopups2", "clickJoin",
     "dismissPopups3", "waitForAdmission", "verifyInMeeting", "tick",
     "getParticipantCount"}

\* run()'s catch block (lines 593-596) takes over from an adapter call
AdapterCallThrows ==
    /\ pc \in AdapterCallPcs
    /\ pc' = "cleanup"
    /\ hist'.endedBy = "error"

\* C13 as stated: when an adapter call made by the controller during join or
\* monitoring throws, the controller continues in its current phase; the
\* throw never takes run() to cleanup.
C13_AsStated ==
    [][~AdapterCallThrows]_vars

\* puppeteer.connect rejected in init(): run()'s catch block has taken over
\* with this.browser still null
ConnectFailed ==
    /\ hist.endedBy = "error"
    /\ ~bot.browser

\* C14 as stated (MeetingBot.run): when attaching to the browser fails at
\* startup, the process exits with a non-zero status and no session record
\* is written.
C14_AsStated ==
    (ConnectFailed /\ ~Running) =>
        /\ env.exited # 0
        /\ hist.sessionWrites = 0

\* cleanup p has run the transcription command and no text file is where the
\* controller reads the transcript from
TranscriptionFailed(p) ==
    /\ cl[p].execPath # NullPath
    /\ cl[p].pos \notin {"idle", "c_evalStop", "c_transcribe"}
    /\ ~Exists(env.disk, TranscribeTxtPath(cl[p].execPath))

\* the recording was started and cleanup p has stopped it with no file to
\* show for it (none was deleted by the emptied-out policy)
NoUsableRecording(p) ==
    /\ Count(hist.log, "startRecording") = 1
    /\ cl[p].pos \notin {"idle", "c_evalStop"}
    /\ ~Exists(env.disk, AudioWebm)
    /\ ~SkipTranscription(bot, cfg)

\* cleanup p has written the session record
Wrote(p) == cl[p].pos = "done"

CleanupStarted == \E p \in Procs : cl[p].pos # "idle"

\* a step back from cleanup: isInMeeting is set to true again, or run() goes
\* on to another join or monitoring adapter call or to audio routing
BackFromCleanup ==
    /\ CleanupStarted
    /\ \/ bot'.isInMeeting /\ ~bot.isInMeeting
       \/ pc' # pc /\ pc' \in AdapterCallPcs \cup {"routeAudio"}

\* C16 as stated: once cleanup has started (natural end, admission timeout,
\* error or signal), isInMeeting is never set to true again, audio routing
\* is not started, and no further join or monitoring adapter call is made,
\* in every interleaving of signal handlers with the join and monitor flows.
C16_AsStated ==
    [][~BackFromCleanup]_vars

\* C18 as stated: after cleanup of a session that captured a non-empty
\* recording and did not skip transcription, the recording file audio.webm
\* still holds its audio, and the session record is in a separate
\* session.json of the same directory, never at the recording's path.
C18_AsStated ==
    (hist.sessionWrites >= 1 /\ hist.record.audio /\ ~SkipTranscription(bot, cfg)) =>
        /\ env.disk[AudioWebm] = "audio"
        /\ hist.record.file # bot.recordingPath
        /\ hist.record.file = SessionJson

\* C20 as stated: once stopRecording has run in cleanup, no flush interval
\* is active in the running process and none is started afterwards, in every
\* interleaving, a termination signal arriving while routeAudio is still
\* waiting for streams included.
C20_AsStated ==
    (Running /\ hist.stopRecordingCalls >= 1) => ~bot.audioSaveInterval

\* a monitoring tick on which getParticipantCount() resolved with -1
UnknownCountTick ==
    /\ pc = "getParticipantCount"
    /\ pc' # "getParticipantCount"
    /\ hist'.lastCount = -1

\* such a tick touches the empty timer or ends the session as emptied-out
UnknownCountTickActs ==
    /\ UnknownCountTick
    /\ \/ bot'.emptyMeetingSince # bot.emptyMeetingSince
       \/ bot'.leftDueToEmptyTimeout # bot.leftDueToEmptyTimeout
       \/ bot'.isInMeeting # bot.isInMeeting
       \/ pc' = "cleanup"
       \/ hist'.endedBy # hist.endedBy

\* C21: on a monitoring tick where getParticipantCount() returns -1 the
\* empty timer is left as it was (unset stays unset, a running one keeps its
\* start time) and the session does not end as emptied-out on that tick.
C21_UnknownLeavesTimer == [][~UnknownCountTickActs]_vars

\* an unknown count was observed while the empty timer was running, and the
\* loop goes on
C21_Witness ==
    /\ hist.observed
    /\ hist.lastCount = -1
    /\ hist.lastCountAt = env.now
    /\ ~Falsy(bot.emptyMeetingSince)
    /\ pc = "tick"

\* waitForAdmission returned "timeout" or "ended" and the session record was
\* written
NeverAdmitted ==
    /\ hist.endedBy \in {"ended", "timeout"}
    /\ hist.sessionWrites >= 1

\* keys under which a record could say how the session ended
OutcomeKeys ==
    {"reason", "outcome", "endReason", "endedBy", "status", "joined",
     "hasJoinedMeeting", "neverJoined", "leftDueToEmptyTimeout"}

\* C25 as stated: when waitForAdmission resolves "timeout" (or "ended"), the
\* controller goes to cleanup without starting audio routing and without any
\* monitoring tick, the process does not crash, and the session record
\* written carries an explicit outcome reason that identifies the session as
\* never joined.
C25_AsStated ==
    NeverAdmitted =>
        /\ Count(hist.log, "routeAudio") = 0
        /\ hist.ticks = 0
        /\ env.exited = 0
        /\ hist.record.keys \cap OutcomeKeys # {}

\* the meeting tab is closed or cleared while no session record is written
ReleasedBeforeRecord ==
    /\ env.tab = "open"
    /\ env'.tab # "open"
    /\ hist.sessionWrites = 0

\* a step of cleanup that is not in the order stop recording, transcription,
\* metadata generation, session record, release of the tab, exit
CleanupOutOfOrder ==
    \/ hist'.transcribeRuns > hist.transcribeRuns /\ hist'.stopRecordingCalls = 0
    \/ hist'.generateMetadataArgs # hist.generateMetadataArgs /\ env.tab # "open"
    \/ ReleasedBeforeRecord
    \/ env'.exited # Null /\ hist'.sessionWrites = 0

\* C26 as stated: cleanup performs its steps in this order in every run:
\* stop recording; transcription (or deletion of the raw recording); metadata
\* generation; persisting the session record; releasing the browser tab;
\* terminating the process.
C26_AsStated == [][~CleanupOutOfOrder]_vars


\* cleanup has decided whether to transcribe: it has passed stopRecording
Decided(p) == cl[p].pos \notin {"idle", "c_evalStop"}

\* C27 as stated: cleanup skips transcription (and deletes the raw
\* recording) iff the session ended with the emptied-out reason and
\* skipTranscriptionOnEmptyLeave is not false; a session ended by hasEnded, by
\* a termination signal or by an error never gets the emptied-out reason.
C27_AsStated ==
    /\ \A p \in Procs :
         Decided(p) =>
            (cl[p].skipTranscription <=>
                (/\ hist.firstEndedBy = "empty"
                 /\ cfg.skipTranscriptionOnEmptyLeave # "false"))
    /\ bot.leftDueToEmptyTimeout => hist.firstEndedBy = "empty"

\* the transcript text files the session directory holds
TextFiles == {f \in DiskPaths : env.disk[f] = "text"}

\* C28 as stated: in cleanup, generateMetadata is invoked only with the path
\* of the transcript text file that transcription produced, never with the
\* path of the audio recording, and it is invoked whenever that transcript
\* file exists.
C28_AsStated ==
    /\ \A path \in hist.generateMetadataArgs :
         /\ path # AudioWebm
         /\ EndsWith(path, DotTxt)
    /\ (hist.sessionWrites >= 1 /\ hist.signals = 0 /\ TextFiles # {}) =>
           hist.generateMetadataArgs \cap TextFiles # {}

\* the adapter calls joinMeeting makes
JoinCalls ==
    {"normalizeUrl", "goto", "dismissPopups", "enterName", "muteMedia",
     "clickJoin", "waitForAdmission", "verifyInMeeting"}

IsJoinCall(e) == e \in JoinCalls

\* the calls of joinMeeting so far, in the order they were made
JoinCallsMade == SelectSeq(hist.log, IsJoinCall)

\* the calls of joinMeeting up to clickJoin, in the order of the code
InitiatingOrder ==
    <<"normalizeUrl", "goto", "dismissPopups">>
       \o (IF cfg.googleAccount THEN <<>> ELSE <<"enterName">>)
       \o <<"muteMedia", "dismissPopups", "clickJoin">>

IsPrefix(s, t) == Len(s) <= Len(t) /\ SubSeq(t, 1, Len(s)) = s

\* C31: in every join the controller calls normalizeUrl, the navigation,
\* dismissPopups, enterName (not at all when config.googleAccount is enabled),
\* muteMedia, dismissPopups and clickJoin in this order; muteMedia precedes
\* clickJoin, and waitForAdmission and verifyInMeeting are never called
\* before clickJoin.
C31_InitiatingOrder ==
    /\ \/ IsPrefix(JoinCallsMade, InitiatingOrder)
       \/ IsPrefix(InitiatingOrder, JoinCallsMade)
    /\ \A e \in {"waitForAdmission", "verifyInMeeting"} :
         Count(hist.log, e) > 0 =>
            /\ Count(hist.log, "clickJoin") > 0
            /\ FirstIndex(hist.log, "clickJoin") < FirstIndex(hist.log, e)
    /\ Count(hist.log, "clickJoin") > 0 =>
         /\ Count(hist.log, "muteMedia") > 0
         /\ FirstIndex(hist.log, "muteMedia") < FirstIndex(hist.log, "clickJoin")

\* a join with the Google account that skipped enterName and went on to
\* verifyInMeeting
C31_Witness ==
    /\ cfg.googleAccount
    /\ Count(hist.log, "verifyInMeeting") > 0
    /\ Count(hist.log, "enterName") = 0
    /\ Count(hist.log, "clickJoin") = 1

\* a step changes hasJoinedMeeting
JoinedChanges == bot'.hasJoinedMeeting # bot.hasJoinedMeeting

\* hasJoinedMeeting changes other than from false to true when
\* waitForAdmission or verifyInMeeting settles in joinMeeting
JoinedChangesOutsideJoin ==
    /\ JoinedChanges
    /\ ~(/\ pc \in {"waitForAdmission", "verifyInMeeting"}
         /\ ~bot.hasJoinedMeeting
         /\ bot'.hasJoinedMeeting)

\* C38: hasJoinedMeeting is decided only during joinMeeting and is monotone:
\* monitorMeeting never changes it, so every tick of a session passes to
\* checkMeetingEnded the value the join left (false on every tick of a
\* session that started unconfirmed), and a confirmed session never reverts
\* to false.
C38_JoinedDecidedInJoin ==
    /\ [](hist.checkMeetingEndedArgs \subseteq {bot.hasJoinedMeeting})
    /\ [][~JoinedChangesOutsideJoin]_vars

\* a session that started unconfirmed has passed false to checkMeetingEnded
\* on several ticks, having seen participants in between
C38_Witness ==
    /\ Count(hist.log, "unverified") = 1
    /\ ~bot.hasJoinedMeeting
    /\ hist.ticks >= 2
    /\ hist.lastCount > 0
    /\ hist.checkMeetingEndedArgs = {FALSE}

\* the adapter in use inherits BasePlatform.getParticipantCount
InheritsParticipantCount == bot.adapter \in Adapters \ {"google-meet"}

\* with the adapter in use the empty timer is never started and no cleanup
\* takes the session for emptied out
NoEmptyTimer ==
    /\ Falsy(bot.emptyMeetingSince)
    /\ ~bot.leftDueToEmptyTimeout
    /\ hist.endedBy # "empty"
    /\ \A p \in Procs : ~cl[p].skipTranscription

C40_AsStated ==
    (hist.unlinked /\ hist.sessionWrites >= 1) =>
       /\ ~hist.record.audio
       /\ ~hist.record.transcript
(***************************************************************************)
(* Properties of the adapters' helpers.                                    *)
(***************************************************************************)
\* whether pattern p, from position j, matches s from position i to its end:
\* "*" stands for any, possibly empty, run of characters outside `excluded`,
\* every other character for itself
RECURSIVE GlobMatchFrom(_, _, _, _, _)
GlobMatchFrom(s, i, p, j, excluded) ==
    IF j > Len(p) THEN i > Len(s)
    ELSE IF p[j] = "*"
    THEN \E k \in i..(Len(s) + 1) :
            /\ \A m \in i..(k - 1) : s[m] \notin excluded
            /\ GlobMatchFrom(s, k, p, j + 1, excluded)
    ELSE /\ i <= Len(s)
         /\ s[i] = p[j]
         /\ GlobMatchFrom(s, i + 1, p, j + 1, excluded)

GlobMatches(s, p, excluded) == GlobMatchFrom(s, 1, p, 1, excluded)

\* "pattern p matches caller c" in isCallerAllowed
PatternMatches(c, p) == matchPattern(toLowerCase(c), toLowerCase(p))

\* C5 as stated: for every caller string c, including the empty string, and
\* lists A and B, isCallerAllowed(c, A, B) is true exactly when no pattern of
\* B matches c and (A is empty or some pattern of A matches c).
C5_AsStated ==
    (fn.mode = "isCallerAllowed" /\ fn.applied) =>
        fn.result =
            ( /\ \A i \in 1..Len(fn.blockList) :
                    ~PatternMatches(fn.str, fn.blockList[i])
              /\ \/ Len(fn.allowList) = 0
                 \/ \E i \in 1..Len(fn.allowList) :
                        PatternMatches(fn.str, fn.allowList[i]) )

C10_NormalizeUrlIdempotent ==
    (fn.mode = "normalizeUrl" /\ fn.applied) => fn.again = fn.out

\* a Zoom /j/ link with a query was rewritten to the web client form
C10_Witness ==
    /\ fn.mode = "normalizeUrl" /\ fn.applied
    /\ fn.adapter = "zoom"
    /\ fn.url = ZoomUrl \o <<"?","p","w","d","=","a">>
    /\ fn.out = HttpsPrefix \o ZoomHost \o WebClientPath
                    \o <<"1","?","p","w","d","=","a">>
    /\ fn.again = fn.out


\* the in-session UI is gone: no leave or end-call control, and the landing
\* page or the main chat interface is showing (or the tab was redirected)
UiGone(page) ==
    /\ ~page.leaveControl
    /\ page.mainUI

\* C17 as stated: for each adapter's checkMeetingEnded / checkCallEnded, when
\* everConfirmedActive is false the result is true only if an explicit end
\* indicator is present, and absence of the in-session UI alone never yields
\* true; when everConfirmedActive is true, such disappearance yields true.
C17_AsStated ==
    (fn.mode = "checkMeetingEnded" /\ fn.applied) =>
        /\ (~fn.hasJoinedBefore /\ fn.ended = "true") =>
               (fn.page.endPhrase \/ fn.page.endHidden)
        /\ (fn.hasJoinedBefore /\ UiGone(fn.page)) => fn.ended = "true"

\* C19 as stated: dismissPopups is idempotent: on an otherwise unchanged
\* page, the call after an effective dismissal performs no further click and
\* leaves the page as the first call left it.
C19_AsStated ==
    (fn.mode = "dismissPopups" /\ fn.applied /\ fn.first.clicks > 0) =>
        /\ fn.second.clicks = 0
        /\ fn.second.page = fn.first.page

\* a waiting-room indicator is on the page: a waiting-room phrase in its
\* visible text, or the waiting-room container
WaitingIndicator(page) == page.waitingRoom \/ page.waitingContainer

\* the page of the poll on which waitForAdmission returned
DecidingPoll == fn.polls[fn.admission.polls]

\* C22: Zoom: whenever a waiting-room indicator is on the page,
\* verifyInMeeting and _isInMeetingRoom return false whatever in-session UI
\* (leave button, meeting container, toolbar) is there too, and
\* waitForAdmission does not return "admitted" on a poll whose page still has
\* the indicator.
C22_WaitingRoomExcluded ==
    /\ (/\ fn.mode = "verifyInMeeting" /\ fn.applied /\ fn.adapter = "zoom"
        /\ WaitingIndicator(fn.page)) =>
           (fn.verified = "false" /\ ~fn.inRoom)
    /\ (/\ fn.mode = "waitForAdmission" /\ fn.applied
        /\ fn.admission.outcome = "admitted") =>
           ~WaitingIndicator(DecidingPoll)

\* verifyInMeeting said no on a waiting-room page that shows the leave
\* button and the toolbar
C22_Witness ==
    /\ fn.mode = "verifyInMeeting" /\ fn.applied /\ fn.adapter = "zoom"
    /\ fn.page.waitingRoom /\ fn.page.leaveControl /\ fn.page.toolbar
    /\ ~fn.page.crashed
    /\ fn.verified = "false"

\* an end phrase is on the page only in markup that is not displayed
EndPhraseHiddenOnly(page) == page.endHidden /\ ~page.endPhrase

\* C23 as stated: Zoom's end-of-meeting detection depends on user-visible
\* text only: with an end phrase present only in hidden markup,
\* waitForAdmission does not return "ended" and checkMeetingEnded does not
\* return true.
C23_AsStated ==
    /\ (/\ fn.mode = "waitForAdmission" /\ fn.applied
        /\ fn.admission.outcome = "ended") =>
           ~EndPhraseHiddenOnly(DecidingPoll)
    /\ (/\ fn.mode = "checkMeetingEnded" /\ fn.applied /\ fn.adapter = "zoom"
        /\ EndPhraseHiddenOnly(fn.page)
        /\ ~fn.page.waitingRoom /\ ~fn.page.waitingHidden /\ ~fn.page.mainUI
        /\ fn.page.leaveControl) =>
           fn.ended # "true"

\* the pre-join screen: the join button is shown and nothing of the call's
\* UI is
PreJoinScreen(page) ==
    /\ page.joinNow
    /\ ~page.leaveControl /\ ~page.toolbar /\ ~page.meetingText

\* C24 as stated: verifyInMeeting returns false whenever the page is still a
\* pre-join screen or a waiting room, for every adapter, Google Meet on the
\* meeting URL included.
C24_AsStated ==
    (/\ fn.mode = "verifyInMeeting" /\ fn.applied
     /\ ~fn.page.crashed
     /\ \/ PreJoinScreen(fn.page)
        \/ fn.adapter = "zoom" /\ WaitingIndicator(fn.page)) =>
        fn.verified = "false"

\* waitForAdmission has been applied
Awaited == fn.mode = "waitForAdmission" /\ fn.applied

\* C34 as stated: Zoom's waitForAdmission always returns exactly one of
\* "admitted", "ended", "timeout" and "not_waiting": "not_waiting" iff no
\* waiting room is found at the initial check, and then nothing is polled;
\* "timeout" when the polls are used up with neither a visible end phrase nor
\* a confirmed admission; "ended" on a poll with a visible end phrase, even
\* without a waiting room; "admitted" only when the waiting room is gone and
\* verifyInMeeting returned true.
C34_AsStated ==
    Awaited =>
       /\ fn.admission.outcome \in {"admitted", "ended", "timeout", "not_waiting"}
       /\ fn.admission.outcome = "not_waiting" <=> ~zoomIsInWaitingRoom(fn.page)
       /\ fn.admission.outcome = "not_waiting" => fn.admission.polls = 0
       /\ fn.admission.outcome = "timeout" =>
            /\ fn.admission.polls = Len(fn.polls)
            /\ \A i \in DOMAIN fn.polls :
                 /\ ~VisibleTextContains(fn.polls[i], "endPhrase")
                 /\ ~(/\ ~zoomIsInWaitingRoom(fn.polls[i])
                      /\ zoomVerifyInMeeting(fn.polls[i]) = "true")
       /\ (/\ fn.admission.outcome \notin {"not_waiting", "timeout"}
           /\ VisibleTextContains(DecidingPoll, "endPhrase")) =>
              fn.admission.outcome = "ended"
       /\ fn.admission.outcome = "admitted" =>
            /\ ~zoomIsInWaitingRoom(DecidingPoll)
            /\ zoomVerifyInMeeting(DecidingPoll) = "true"

(***************************************************************************)
(* Properties of the watcher daemon.                                       *)
(***************************************************************************)
\* what must never happen for a rejected call
DeclinedOnly ==
    /\ whist.cur.declineCalls >= 1
    /\ whist.cur.answerCalls = 0
    /\ whist.cur.states \cap {State.ANSWERING, State.IN_CALL} = {}
    /\ whist.cur.sessionWrites = << >>

\* a rejected call is being handled: the watcher is RINGING for it
RingingRejected ==
    /\ WatcherAlive
    /\ whist.cur.rejected
    /\ watcher.state = State.RINGING

\* C7 as stated: for every detected incoming call whose caller is rejected by
\* the allow/block evaluation, declineCall is invoked, answerCall is never
\* invoked for that call, the state never becomes ANSWERING or IN_CALL, no
\* session record is written, and the watcher returns to IDLE (unless the
\* process is ended first).
C7_AsStated ==
    /\ [](whist.cur.rejected => DeclinedOnly)
    /\ (RingingRejected ~> (watcher.state = State.IDLE \/ ~WatcherAlive))

\* C11 as stated: when SIGINT/SIGTERM arrives after a call has been answered
\* and before its session record has been written (in ANSWERING after
\* answerCall succeeded, in IN_CALL, CALL_ENDED or PROCESSING), the watcher
\* attempts endCall when the call is still live, and the process does not
\* exit before that call's session record is written.
C11_AsStated ==
    (whist.signalAnswered /\ ~WatcherAlive) =>
        /\ whist.cur.sessionWrites # << >>
        /\ whist.signalState \in {State.ANSWERING, State.IN_CALL} =>
               whist.cur.endCallCalls >= 1

\* the watcher has seen the logged-out indicator and not yet resumed
SessionInvalidated == watcher.state = State.ERROR

\* C12 as stated: after checkAuthState reports "qr_code" while IDLE, the
\* watcher stops calling detectIncomingCall and does not exit (no signal
\* delivered), and if authentication is restored at any later time, within
\* or after the bounded re-auth wait, it eventually returns to IDLE.
C12_AsStated ==
    /\ [](SessionInvalidated => wpc[MainProc].pos # "detectIncomingCall")
    /\ []((SessionInvalidated /\ whist.signals = 0) => WatcherAlive)
    /\ ((SessionInvalidated /\ ~wenv.loggedOut /\ whist.signals = 0)
            ~> (watcher.state = State.IDLE \/ whist.signals > 0))

\* the step on which the re-check after the pre-answer delay finds the call
\* gone
CancelledInDelay ==
    /\ wpc[MainProc].pos = "answerDelay"
    /\ wpc'[MainProc].pos = "loop"

\* that step does anything but go back to IDLE with the call dropped
CancelledInDelayActs ==
    /\ CancelledInDelay
    /\ \/ watcher'.state # State.IDLE
       \/ watcher'.currentCall # << >>
       \/ watcher'.callCount # watcher.callCount
       \/ whist'.cur.answerCalls # 0
       \/ whist'.cur.states \cap {State.ANSWERING, State.IN_CALL} # {}
       \/ whist'.cur.sessionWrites # << >>

\* C29: for an allowed caller with autoAnswerDelaySec > 0 the watcher
\* re-checks detectIncomingCall after the delay; if the call is no longer
\* detected it returns to IDLE with currentCall cleared, without invoking
\* answerCall, without entering ANSWERING, and without incrementing callCount
\* or writing a session record.
C29_CancelledInDelay ==
    /\ [][~CancelledInDelayActs]_vars
    /\ [](whist.cur.answerCalls = 0 =>
            /\ whist.cur.states \cap {State.ANSWERING, State.IN_CALL} = {}
            /\ whist.cur.sessionWrites = << >>)
    /\ [](wpc[MainProc].pos = "answerDelay" =>
            /\ wcfg.autoAnswerDelaySec > 0
            /\ ~whist.cur.rejected
            /\ whist.cur.answerCalls = 0)

\* an allowed call was cancelled during the delay: the watcher is back in its
\* loop, IDLE, and the call was neither answered nor declined
C29_Witness ==
    /\ WatcherAlive
    /\ whist.calls >= 1
    /\ ~whist.cur.rejected
    /\ wcfg.autoAnswerDelaySec > 0
    /\ whist.cur.answerCalls = 0
    /\ whist.cur.declineCalls = 0
    /\ wpc[MainProc].pos = "loop"
    /\ watcher.state = State.IDLE
    /\ watcher.currentCall = << >>

\* the current call has been answered
CallLive ==
    /\ watcher.currentCall # << >>
    /\ watcher.currentCall[1].answered

\* the process has been told to stop, or has stopped
Stopping == whist.signals > 0 \/ ~WatcherAlive

\* a monitoring tick past the maximum duration that neither finds the call
\* ended nor invokes endCall
MaxDurationIgnored ==
    /\ wpc[MainProc].pos = "monitorPoll"
    /\ wpc'[MainProc].pos # "monitorPoll"
    /\ wenv'.now - watcher.callStartedAt > MaxDurationMs
    /\ State.CALL_ENDED \notin whist'.cur.states
    /\ whist'.cur.endCallCalls = whist.cur.endCallCalls

\* endCall is over and the call is not ended
EndCallLeavesCall ==
    /\ wpc[MainProc].pos = "endCall"
    /\ wpc'[MainProc].pos # "endCall"
    /\ State.CALL_ENDED \notin whist'.cur.states

\* C30 as stated: every answered call eventually reaches PROCESSING and then
\* IDLE (unless the process is stopped first); when checkCallEnded stays
\* false, the first monitoring tick after the elapsed call time exceeds
\* maxCallDurationMin invokes endCall, and the call is ended (CALL_ENDED, then
\* PROCESSING) whatever endCall's outcome.
C30_AsStated ==
    /\ (CallLive /\ whist.signals = 0)
          ~> (State.PROCESSING \in whist.cur.states \/ Stopping)
    /\ (watcher.state = State.PROCESSING /\ whist.signals = 0)
          ~> (watcher.state = State.IDLE \/ Stopping)
    /\ [][~MaxDurationIgnored]_vars
    /\ [][~EndCallLeavesCall]_vars

\* C32 as stated: whenever the watcher's state is IDLE the per-call data is
\* cleared: currentCall, callStartedAt and recordingPath are null, also after
\* the main loop has recovered from an error.
C32_AsStated ==
    watcher.state = State.IDLE =>
       /\ watcher.currentCall = << >>
       /\ watcher.callStartedAt = Null
       /\ watcher.recordingPath = NullPath

\* the state changes of the start-up: STARTING -> WAITING_AUTH -> IDLE
StartUpEdges ==
    {<<State.STARTING, State.WAITING_AUTH>>, <<State.WAITING_AUTH, State.IDLE>>}

\* the call cycle, the abort edges and the auth edges
CycleEdges ==
    {<<State.IDLE, State.RINGING>>, <<State.RINGING, State.ANSWERING>>,
     <<State.ANSWERING, State.IN_CALL>>, <<State.IN_CALL, State.CALL_ENDED>>,
     <<State.CALL_ENDED, State.PROCESSING>>, <<State.PROCESSING, State.IDLE>>,
     <<State.RINGING, State.IDLE>>, <<State.ANSWERING, State.IDLE>>,
     <<State.IDLE, State.ERROR>>, <<State.ERROR, State.IDLE>>}

\* C33 as stated: every change of the watcher's state follows a start-up
\* edge, an edge of the call cycle, an abort edge or an auth edge; PROCESSING
\* is entered only from CALL_ENDED and IN_CALL only from ANSWERING.
C33_AsStated == whist.edges \subseteq StartUpEdges \cup CycleEdges

\* C35 as stated: for an answered call processCallEnd runs once, with one
\* stopRecording and one session record, in every interleaving of a
\* shutdown signal with monitorCall's loop; shutdown and the loop never both
\* process the same call.
C35_AsStated ==
    /\ whist.cur.processCallEnds <= 1
    /\ whist.cur.stopRecordingCalls <= 1
    /\ Len(whist.cur.sessionWrites) <= 1

\* the main loop has caught an exception and is in its catch block
Recovering == WatcherAlive /\ wpc[MainProc].pos = "recover"

\* the watcher is idle and polls detectIncomingCall
PollingAgain ==
    watcher.state = State.IDLE /\ wpc[MainProc].pos = "detectIncomingCall"

\* C36 as stated: after an exception caught by the main loop, in any state,
\* the watcher eventually is IDLE again and polls detectIncomingCall, whether
\* or not the reconnect attempt succeeds (unless it is shut down); it never
\* stays for ever in a non-IDLE state in which the loop only sleeps.
C36_AsStated == Recovering ~> (PollingAgain \/ ~watcher.running)

\* a recording is running for the answered call
RecordingStarted ==
    /\ whist.cur.answerCalls > 0
    /\ whist.cur.startRecordingCalls > 0
    /\ watcher.recordingPath # NullPath

\* the call's recording was stopped and its session record written
RecordingSaved ==
    whist.cur.stopRecordingCalls > 0 /\ whist.cur.sessionWrites # << >>

\* the watcher starts to handle another call while the recording of the
\* previous one is neither stopped nor saved
NextCallUnsaved ==
    /\ whist.calls' = whist.calls + 1
    /\ RecordingStarted
    /\ ~RecordingSaved

\* C37 as stated: if a recording was started for an answered call, then
\* stopRecording is invoked for it and its session record is written before
\* the watcher handles another call, even when an adapter call throws during
\* monitoring and the main loop's recovery resets the state to IDLE.
C37_AsStated == [][~NextCallUnsaved]_vars
=============================================================================
